---- MODULE Spec2Model ----
(***************************************************************************)
(* Model of the erock.io blog repository: the two presentational React    *)
(* components (the open-graph image template and the Footer) and the      *)
(* package.json scripts that build and deploy the site.                   *)
(***************************************************************************)
EXTENDS Integers, Sequences, FiniteSets, TLC

VARIABLES
    comp,       \* component rendered by the last render pass ("none" before any)
    post,       \* front matter of the page the last render pass belonged to
    input,      \* value handed to the component: props (og-image), query data (Footer)
    out,        \* result of the last render pass: a tree or a thrown error
    prev,       \* component, input and result of the render pass before the last
    renders,    \* number of render passes so far
    after,      \* the input object as the last render pass left it
    script,     \* name of the package.json script invoked ("none" when idle)
    stack,      \* shell frames of the running invocation, innermost last
    ran,        \* commands started so far in this invocation, with their exit status
    files,      \* state of the ./public and ./.cache directories
    exit,       \* exit status of the finished invocation (NoExit while running)
    read,       \* paths of the posts the build has read
    frontmatter, \* front matter of each post read, by path
    gen,        \* the generator object made by fetchAndSaveMovie: position and locals
    fed,        \* the calls made on the generator so far: next(value) or throw(value)
    effects,    \* the values the generator has yielded so far
    ret,        \* what the last call on the generator gave: a result or a thrown error
    promises,   \* the promises returned by the calls of writeFile (version 1), in order
    store,      \* state held by the redux store of the createReducer example
    dispatched, \* the actions handed to store.dispatch so far
    dispatchRet,\* what the last store.dispatch gave: the action, or a thrown error
    partial,    \* the argument of the last call of defaultBlog
    built,      \* what that call returned
    appState,   \* the redux state read by the selectors: { blogs }
    article,    \* the last render of BlogArticle: its prop, the state it read, its result
    deserialized, \* the last call of deserializeAuthor: version, response, result
    extra,      \* the extraReducers object the caller holds and hands to createSlice
    slices,     \* the slices createSlice returned, in order
    sliceStates,\* the state each slice's reducer last returned
    applied,    \* the last call of a slice's reducer: state and action in, result out
    users,      \* the emails createUser has made a user for
    registered, \* the last call of register: version, arguments, users before, response
    task,       \* the saga the middleware is running: its generator and how it ended
    yielded,    \* the effects that saga has yielded so far
    db          \* the redux state the saga's put effects are dispatched to

renderVars == <<comp, post, input, out, prev, renders, after>>
scriptVars == <<script, stack, ran, files, exit>>
contentVars == <<read, frontmatter>>
genVars == <<gen, fed, effects, ret>>
movieVars == <<genVars, promises>>
storeVars == <<store, dispatched, dispatchRet>>
blogVars == <<partial, built, appState, article, deserialized>>
sliceVars == <<extra, slices, sliceStates, applied>>
registerVars == <<users, registered>>
sagaVars == <<task, yielded, db>>
nonRenderVars ==
    <<scriptVars, contentVars, movieVars, storeVars, blogVars, sliceVars, registerVars, sagaVars>>
nonScriptVars ==
    <<renderVars, contentVars, movieVars, storeVars, blogVars, sliceVars, registerVars, sagaVars>>
nonContentVars ==
    <<renderVars, scriptVars, movieVars, storeVars, blogVars, sliceVars, registerVars, sagaVars>>
nonMovieVars ==
    <<renderVars, scriptVars, contentVars, storeVars, blogVars, sliceVars, registerVars, sagaVars>>
nonStoreVars ==
    <<renderVars, scriptVars, contentVars, movieVars, blogVars, sliceVars, registerVars, sagaVars>>
nonBlogVars ==
    <<renderVars, scriptVars, contentVars, movieVars, storeVars, sliceVars, registerVars, sagaVars>>
nonSliceVars ==
    <<renderVars, scriptVars, contentVars, movieVars, storeVars, blogVars, registerVars, sagaVars>>
nonRegisterVars ==
    <<renderVars, scriptVars, contentVars, movieVars, storeVars, blogVars, sliceVars,
      sagaVars>>
nonSagaVars ==
    <<renderVars, scriptVars, contentVars, movieVars, storeVars, blogVars, sliceVars,
      registerVars>>
vars ==
    <<renderVars, scriptVars, contentVars, movieVars, storeVars, blogVars, sliceVars,
      registerVars, sagaVars>>

(***************************************************************************)
(* Bounds                                                                  *)
(***************************************************************************)
MaxRenders == 2
MaxStatus == 2
MaxCalls == 4
MaxWrites == 2
MaxDispatches == 4
MaxSlices == 2
MaxApplied == 2
MaxTasks == 2

(***************************************************************************)
(* JavaScript values                                                       *)
(***************************************************************************)
Undefined == [t |-> "undefined"]
Null == [t |-> "null"]
Str(s) == [t |-> "string", s |-> s]
Obj(f) == [t |-> "object", f |-> f]

IsStr(v) == v.t = "string"
IsObj(v) == v.t = "object"
IsNullish(v) == v.t \in {"undefined", "null"}

\* o.k for an object o: the value stored under k, undefined when o has no k
Get(o, k) == IF IsObj(o) /\ k \in DOMAIN o.f THEN o.f[k] ELSE Undefined

\* `${v}` : the string a template literal substitutes for v
TemplateString(v) ==
    CASE v.t = "string" -> v.s
      [] v.t = "undefined" -> "undefined"
      [] v.t = "null" -> "null"
      [] OTHER -> "[object Object]"

\* t occurs in s as a contiguous substring
Contains(s, t) ==
    \E i \in 0..(Len(s) - Len(t)) : SubSeq(s, i + 1, i + Len(t)) = t

(***************************************************************************)
(* React elements and render results                                       *)
(***************************************************************************)
Element(type, props, children) ==
    [type |-> type, props |-> props, children |-> children]

IsElement(n) == "type" \in DOMAIN n

Returned(tree) == [threw |-> FALSE, tree |-> tree]
Threw(error) == [threw |-> TRUE, error |-> error]
NotRendered == [threw |-> FALSE]

\* the text a child contributes: strings as they are, undefined and null nothing
RECURSIVE TextOf(_)
TextOfChildren(children) ==
    LET F[i \in 0..Len(children)] ==
            IF i = 0 THEN "" ELSE F[i - 1] \o TextOf(children[i])
    IN F[Len(children)]
TextOf(n) ==
    IF IsElement(n) THEN TextOfChildren(n.children)
    ELSE IF IsStr(n) THEN n.s
    ELSE ""

\* all elements of the given type in the tree, in document order
RECURSIVE ElementsOf(_, _)
ElementsOfChildren(children, type) ==
    LET F[i \in 0..Len(children)] ==
            IF i = 0 THEN <<>> ELSE F[i - 1] \o ElementsOf(children[i], type)
    IN F[Len(children)]
ElementsOf(n, type) ==
    IF IsElement(n)
    THEN (IF n.type = type THEN <<n>> ELSE <<>>) \o ElementsOfChildren(n.children, type)
    ELSE <<>>

\* the children of the tree that are not elements, in document order
RECURSIVE TextNodes(_)
TextNodesOfChildren(children) ==
    LET F[i \in 0..Len(children)] ==
            IF i = 0 THEN <<>> ELSE F[i - 1] \o TextNodes(children[i])
    IN F[Len(children)]
TextNodes(n) ==
    IF IsElement(n) THEN TextNodesOfChildren(n.children) ELSE <<n>>

InSeq(x, sq) == \E i \in 1..Len(sq) : sq[i] = x

NoProps == <<>>

\* the characters U+00B7 and U+2022 that JSX decodes &middot; and &bull; to,
\* written here by their entity names
middot == "&middot;"
bull == "&bull;"

(***************************************************************************)
(* src/templates/og-image.js                                               *)
(***************************************************************************)
\* OuterStyle with a width other than the one the template fixes
OuterStyleNarrow == [width |-> 1024, height |-> 630, padding |-> 50]

OuterStyle == [width |-> 1200, height |-> 630, padding |-> 50]

InnerStyle ==
    [display |-> "flex",
     flexDirection |-> "column",
     justifyContent |-> "space-between",
     border |-> "2px solid black",
     backgroundColor |-> "#fff",
     color |-> "#fff",
     backgroundImage |-> "linear-gradient(43deg, #4158D0 0%, #C850C0 50%, #FFCC70 95%)",
     boxShadow |-> "rgba(0, 0, 0, 0.19) 0px 10px 20px, rgba(0, 0, 0, 0.23) 0px 6px 6px",
     borderTopLeftRadius |-> 20,
     borderTopRightRadius |-> 20,
     padding |-> 40,
     fontSize |-> 64,
     height |-> "100%"]

BylineStyle ==
    [display |-> "flex", justifyContent |-> "space-between", fontSize |-> 42, color |-> "#fff"]

\* OgImageTree reading pageContext.Date, a key no pageContext has
OgImageTreeNoDate(pageContext) ==
    Element("div", [style |-> [width |-> 1200, height |-> 630, padding |-> 50]],
        << Element("div", [style |-> InnerStyle],
            << Element("div", NoProps, << Get(pageContext, "description") >>),
               Element("div", [style |-> BylineStyle],
                   << Element("div", NoProps,
                          << Str("Eric Bower " \o middot \o " "),
                             Get(pageContext, "Date") >>),
                      Element("div", NoProps, << Str("erock.io") >>) >>) >>) >>)

\* the tree the template returns for a pageContext it could read
OgImageTree(pageContext) ==
    Element("div", [style |-> OuterStyle],
        << Element("div", [style |-> InnerStyle],
            << Element("div", NoProps, << Get(pageContext, "description") >>),
               Element("div", [style |-> BylineStyle],
                   << Element("div", NoProps,
                          << Str("Eric Bower " \o middot \o " "),
                             Get(pageContext, "date") >>),
                      Element("div", NoProps, << Str("erock.io") >>) >>) >>) >>)

\* OgImage calling a string method on the description, which throws when the
\* description is undefined or null
OgImageStrict(props) ==
    IF IsNullish(props) THEN Threw("TypeError")
    ELSE IF IsNullish(Get(props, "pageContext")) THEN Threw("TypeError")
    ELSE IF IsNullish(Get(Get(props, "pageContext"), "description")) THEN Threw("TypeError")
    ELSE Returned(OgImageTree(Get(props, "pageContext")))

\* OgImage stamping the tree with a module-level count of the passes so far
OgImageCounted(props) ==
    IF IsNullish(props) THEN Threw("TypeError")
    ELSE IF IsNullish(Get(props, "pageContext")) THEN Threw("TypeError")
    ELSE Returned(Element("div", [key |-> renders],
                      << OgImageTree(Get(props, "pageContext")) >>))

\* ({ pageContext }) => ... : reading a property of undefined or null throws
OgImage(props) ==
    IF IsNullish(props) THEN Threw("TypeError")
    ELSE IF IsNullish(Get(props, "pageContext")) THEN Threw("TypeError")
    ELSE Returned(OgImageTree(Get(props, "pageContext")))

\* a template that fills in a missing description on the pageContext it was
\* given: pageContext.description = pageContext.description || ''
PropsAfterOgImageDefaulting(props) ==
    IF IsObj(Get(props, "pageContext")) /\ ~IsStr(Get(Get(props, "pageContext"), "description"))
    THEN Obj([k \in DOMAIN props.f |->
                 IF k = "pageContext"
                 THEN Obj([j \in DOMAIN props.f[k].f \cup {"description"} |->
                              IF j = "description" THEN Str("") ELSE props.f[k].f[j]])
                 ELSE props.f[k]])
    ELSE props

\* the props object after the template ran: the template only reads
\* pageContext.description and pageContext.date and assigns nothing
PropsAfterOgImage(props) == props

(***************************************************************************)
(* src/components/footer.js                                                *)
(***************************************************************************)
\* rhythm comes from ../utils/typography; its results are kept symbolic
rhythm(tenths) == [fn |-> "rhythm", tenths |-> tenths]

Anchor(href, label) ==
    Element("a",
        [href |-> href, target |-> "_blank", rel |-> "noopener noreferrer"],
        << Str(label) >>)

RssLink ==
    Element("div", [style |-> [float |-> "right"]], << Anchor(Str("/rss.xml"), "rss") >>)

TwitterLink(social) ==
    Anchor(Str("https://mobile.twitter.com/" \o TemplateString(Get(social, "twitter"))),
           "twitter")

\* GithubLink without the prefix
GithubLinkBare(social) == Anchor(Get(social, "github"), "github")

GithubLink(social) ==
    Anchor(Str("https://github.com/" \o TemplateString(Get(social, "github"))), "github")

\* StackOverflowLink taking the configured value for a path of this site
StackOverflowLinkRelative(social) ==
    Anchor(Str("/" \o TemplateString(Get(social, "stackoverflow"))), "stack overflow")

StackOverflowLink(social) ==
    Anchor(Get(social, "stackoverflow"), "stack overflow")

\* FooterTree leaving out the link of a handle that is not configured
FooterTreeBranching(social) ==
    Element("footer",
        [style |-> [marginTop |-> rhythm(25), paddingTop |-> rhythm(10)]],
        << RssLink >>
        \o (IF IsNullish(Get(social, "twitter")) THEN <<>>
            ELSE << TwitterLink(social), Str(" "), Str(bull), Str(" ") >>)
        \o (IF IsNullish(Get(social, "github")) THEN <<>>
            ELSE << GithubLink(social), Str(" "), Str(bull), Str(" ") >>)
        \o (IF IsNullish(Get(social, "stackoverflow")) THEN <<>>
            ELSE << StackOverflowLink(social) >>))

FooterTree(social) ==
    Element("footer",
        [style |-> [marginTop |-> rhythm(25), paddingTop |-> rhythm(10)]],
        << RssLink,
           TwitterLink(social), Str(" "), Str(bull), Str(" "),
           GithubLink(social), Str(" "), Str(bull), Str(" "),
           StackOverflowLink(social) >>)

\* FooterRender calling a string method on each handle, which throws when a
\* handle is null
FooterRenderStrict(data) ==
    LET siteMetadata == Get(Get(data, "site"), "siteMetadata")
        social == Get(siteMetadata, "social")
    IN IF IsNullish(siteMetadata) \/ IsNullish(social) THEN Threw("TypeError")
       ELSE IF \E k \in {"twitter", "github", "stackoverflow"} : IsNullish(Get(social, k))
       THEN Threw("TypeError")
       ELSE Returned(FooterTree(social))

\* the render prop handed to StaticQuery, applied to the query's data:
\* const { social } = data.site.siteMetadata, then social.twitter and the rest
FooterRender(data) ==
    LET siteMetadata == Get(Get(data, "site"), "siteMetadata")
        social == Get(siteMetadata, "social")
    IN IF IsNullish(siteMetadata) \/ IsNullish(social) THEN Threw("TypeError")
       ELSE Returned(FooterTree(social))

\* Footer takes no props: its output is what StaticQuery renders for FooterQuery
Footer(data) == FooterRender(data)

\* the query data after the render prop ran: it destructures social and reads
\* its three handles, and assigns nothing
DataAfterFooter(data) == data

(***************************************************************************)
(* Inputs of the render passes                                             *)
(***************************************************************************)
\* front matter of two of the posts under content/blog
Posts ==
    { [title |-> "Listifi launch",
       date |-> "2021-01-26T00:00:00.000Z",
       description |-> "A retrospective on the launch of listifi.app"],
      [title |-> "What is a selector?",
       date |-> "2021-02-24T00:00:00.000Z",
       description |-> "A quick introduction to using selectors in a redux application"] }

Descriptions == {p.description : p \in Posts} \cup {"<b>Tips</b> & tricks"}
Dates == {p.date : p \in Posts} \cup {""}

\* an object with the given keys, leaving out the keys whose value is Absent
Absent == [t |-> "absent"]
ObjectOf(fields) ==
    Obj([k \in {j \in DOMAIN fields : fields[j] # Absent} |-> fields[k]])

PageContexts ==
    { ObjectOf([description |-> d, date |-> t]) :
        d \in {Str(x) : x \in Descriptions} \cup {Null, Absent},
        t \in {Str(x) : x \in Dates} \cup {Null, Absent} }

\* the props the template is called with: with a pageContext object, with a
\* null one, and with none
OgProps ==
    {ObjectOf([pageContext |-> c]) : c \in PageContexts \cup {Null, Absent}}

Handles == {Str("erock"), Str(""), Null}
Profiles == {Str("https://stackoverflow.com/users/1713216"), Str(""), Null}

Socials ==
    { ObjectOf([twitter |-> tw, github |-> gh, stackoverflow |-> so]) :
        tw \in Handles, gh \in Handles, so \in Profiles } \cup {Null}

\* the data StaticQuery hands to the render prop for FooterQuery
FooterData(social) ==
    Obj([site |-> Obj([siteMetadata |-> Obj([social |-> social])])])

(***************************************************************************)
(* Render passes                                                           *)
(***************************************************************************)
\* no page has been rendered yet
NoPost == [title |-> "", date |-> "", description |-> ""]

RenderInit ==
    /\ comp = "none"
    /\ post = NoPost
    /\ input = Undefined
    /\ out = NotRendered
    /\ prev = [comp |-> "none", input |-> Undefined, out |-> NotRendered]
    /\ renders = 0
    /\ after = Undefined

Pass(c, p, in, result) ==
    /\ renders < MaxRenders
    /\ comp' = c
    /\ post' = p
    /\ input' = in
    /\ out' = result
    /\ prev' = [comp |-> comp, input |-> input, out |-> out]
    /\ renders' = renders + 1

RenderOgImage ==
    /\ \E p \in Posts, props \in OgProps :
           /\ Pass("og-image", p, props, OgImage(props))
           /\ after' = PropsAfterOgImage(props)
    /\ UNCHANGED nonRenderVars

RenderFooter ==
    /\ \E p \in Posts, social \in Socials :
           /\ Pass("Footer", p, FooterData(social), Footer(FooterData(social)))
           /\ after' = DataAfterFooter(FooterData(social))
    /\ UNCHANGED nonRenderVars

(***************************************************************************)
(* package.json scripts                                                    *)
(***************************************************************************)
RmPublic == "rm -rf public"
RmCache == "rm -rf .cache"
GatsbyBuild == "gatsby build"
GatsbyDevelop == "gatsby develop"
GatsbyServe == "gatsby serve"
Gsutil ==
    "gsutil -m -h 'Cache-Control:private, max-age=0, no-transform' rsync -a public-read -r ./public gs://erock.io"
Prettier == "prettier --write src/**/*.js content/**/*.md"

\* a command of a chain: an underlying tool, or yarn running another script
Tool(cmd) == [yarn |-> FALSE, cmd |-> cmd]
Yarn(name) == [yarn |-> TRUE, cmd |-> name]

\* Scripts with a build that does not remove .cache
ScriptsBuildKeepsCache ==
    [build |-> << Tool(RmPublic), Tool(GatsbyBuild) >>,
     dev |-> << Tool(GatsbyDevelop) >>,
     upload |-> << Tool(Gsutil) >>,
     deploy |-> << Yarn("build"), Yarn("upload") >>,
     format |-> << Tool(Prettier) >>,
     start |-> << Yarn("dev") >>,
     serve |-> << Tool(GatsbyServe) >>]

\* Scripts with the two commands of deploy in the other order
ScriptsUploadFirst ==
    [build |-> << Tool(RmPublic), Tool(RmCache), Tool(GatsbyBuild) >>,
     dev |-> << Tool(GatsbyDevelop) >>,
     upload |-> << Tool(Gsutil) >>,
     deploy |-> << Yarn("upload"), Yarn("build") >>,
     format |-> << Tool(Prettier) >>,
     start |-> << Yarn("dev") >>,
     serve |-> << Tool(GatsbyServe) >>]

\* scripts: each script is the chain of commands joined by && in its line
Scripts ==
    [build |-> << Tool(RmPublic), Tool(RmCache), Tool(GatsbyBuild) >>,
     dev |-> << Tool(GatsbyDevelop) >>,
     upload |-> << Tool(Gsutil) >>,
     deploy |-> << Yarn("build"), Yarn("upload") >>,
     format |-> << Tool(Prettier) >>,
     start |-> << Yarn("dev") >>,
     serve |-> << Tool(GatsbyServe) >>]

ScriptNames == DOMAIN Scripts
Statuses == 0..MaxStatus
NoExit == [none |-> TRUE]
Exited(status) == [none |-> FALSE, status |-> status]

Frame(name, pc) == [script |-> name, pc |-> pc]
Top == stack[Len(stack)]
Current == Scripts[Top.script][Top.pc]
Running == ran # <<>> /\ ~ran[Len(ran)].done

\* Unwind for chains joined by ; instead of && : the next command runs
\* whatever the status, and the chain ends with the status of its last command
RECURSIVE UnwindSequential(_, _)
UnwindSequential(stk, status) ==
    IF stk = <<>> THEN [stack |-> <<>>, exit |-> Exited(status)]
    ELSE LET top == stk[Len(stk)]
             rest == SubSeq(stk, 1, Len(stk) - 1)
         IN IF top.pc < Len(Scripts[top.script])
            THEN [stack |-> Append(rest, Frame(top.script, top.pc + 1)),
                  exit |-> NoExit]
            ELSE UnwindSequential(rest, status)

\* Unwind reporting every failure of a chain as status 1
RECURSIVE UnwindFlat(_, _)
UnwindFlat(stk, status) ==
    IF stk = <<>> THEN [stack |-> <<>>, exit |-> Exited(IF status = 0 THEN 0 ELSE 1)]
    ELSE LET top == stk[Len(stk)]
             rest == SubSeq(stk, 1, Len(stk) - 1)
         IN IF status = 0 /\ top.pc < Len(Scripts[top.script])
            THEN [stack |-> Append(rest, Frame(top.script, top.pc + 1)),
                  exit |-> NoExit]
            ELSE UnwindFlat(rest, status)

\* a command of the innermost chain finished with the given status: a && chain
\* goes on to its next command after 0 and otherwise ends with that status,
\* which yarn hands to the chain that ran it
RECURSIVE Unwind(_, _)
Unwind(stk, status) ==
    IF stk = <<>> THEN [stack |-> <<>>, exit |-> Exited(status)]
    ELSE LET top == stk[Len(stk)]
             rest == SubSeq(stk, 1, Len(stk) - 1)
         IN IF status = 0 /\ top.pc < Len(Scripts[top.script])
            THEN [stack |-> Append(rest, Frame(top.script, top.pc + 1)),
                  exit |-> NoExit]
            ELSE Unwind(rest, status)

\* what a tool does to ./public and ./.cache when it ends with the given status
Effects(cmd, status, f) ==
    CASE cmd = RmPublic ->
            IF status = 0 THEN {[f EXCEPT !.public = "absent"]} ELSE {f}
      [] cmd = RmCache ->
            IF status = 0 THEN {[f EXCEPT !.cache = "absent"]} ELSE {f}
      [] cmd \in {GatsbyBuild, GatsbyDevelop} ->
            IF status = 0 THEN {[public |-> "new", cache |-> "new"]}
            ELSE {f, [f EXCEPT !.cache = "new"], [public |-> "new", cache |-> "new"]}
      [] OTHER -> {f}

ScriptInit ==
    /\ script = "none"
    /\ stack = <<>>
    /\ ran = <<>>
    /\ files = [public |-> "absent", cache |-> "absent"]
    /\ exit = NoExit

\* yarn <name> typed at the prompt; what an earlier invocation built is now old
Invoke ==
    /\ stack = <<>>
    /\ \E name \in ScriptNames :
        /\ script' = name
        /\ stack' = << Frame(name, 1) >>
    /\ ran' = <<>>
    /\ files' = [d \in DOMAIN files |-> IF files[d] = "new" THEN "old" ELSE files[d]]
    /\ exit' = NoExit
    /\ UNCHANGED nonScriptVars

\* the innermost chain starts its current command
StartCommand ==
    /\ stack # <<>>
    /\ ~Running
    /\ IF Current.yarn
       THEN /\ stack' = Append(stack, Frame(Current.cmd, 1))
            /\ ran' = ran
       ELSE /\ ran' = Append(ran, [cmd |-> Current.cmd, done |-> FALSE, status |-> 0])
            /\ stack' = stack
    /\ UNCHANGED <<script, files, exit>>
    /\ UNCHANGED nonScriptVars

\* the running tool ends with some exit status
FinishCommand ==
    /\ stack # <<>>
    /\ Running
    /\ \E status \in Statuses :
        /\ ran' = [ran EXCEPT ![Len(ran)] = [@ EXCEPT !.done = TRUE, !.status = status]]
        /\ files' \in Effects(ran[Len(ran)].cmd, status, files)
        /\ stack' = Unwind(stack, status).stack
        /\ exit' = Unwind(stack, status).exit
    /\ UNCHANGED script
    /\ UNCHANGED nonScriptVars

(***************************************************************************)
(* content: the Markdown posts and their front matter                      *)
(***************************************************************************)
\* the first lines of every post under src, up to the line that closes its
\* front matter
NamedPosts ==
    ("content/blog/customer-interviews-killed-product-idea/index.md" :>
        << "---",
           "title: Customer interviews killed my product idea",
           "date: '2021-01-31T00:00:00.000Z'",
           "description:",
           "  How I saved months of development time on an idea that wouldn't work",
           "---" >>) @@
    ("content/blog/docker-disk-out-of-space/index.md" :>
        << "---",
           "title: Docker in production -- running out of disk space",
           "date: '2021-01-23T00:00:00.000Z'",
           "description:",
           "  How to solve your production container running out of space with docker",
           "---" >>) @@
    ("content/blog/listifi-launch/index.md" :>
        << "---",
           "title: Listifi launch",
           "date: '2021-01-26T00:00:00.000Z'",
           "description: A retrospective on the launch of listifi.app",
           "---" >>) @@
    ("content/blog/listifi-tech-stack/index.md" :>
        << "---",
           "title: Listifi tech stack",
           "date: '2021-01-25T00:00:00.000Z'",
           "description: An overview of the tech choices I made for listifi.app",
           "---" >>) @@
    ("content/blog/recreating-redux-toolkits-create-slice/index.md" :>
        << "---",
           "title: Recreating redux-toolkit's createSlice",
           "date: '2020-10-07T00:00:00.000Z'",
           "description: Learn how to use createSlice by implementing it yourself",
           "---" >>) @@
    ("content/blog/redux-saga-style-guide.md/index.md" :>
        << "---",
           "title: Redux-saga style-guide",
           "date: '2020-01-01T00:00:00.000Z'",
           "description: Recommended rules for building web apps with redux-saga",
           "---" >>) @@
    ("content/blog/scaling-js-codebase-multiple-platforms/index.md" :>
        << "---",
           "title: Scaling a react/redux codebase for multiple platforms",
           "date: '2019-01-15T10:00:00.000Z'",
           "description: A brief intro on expanding a react web app",
           "---" >>) @@
    ("content/blog/skinny-reducer-fat-effect/index.md" :>
        << "---",
           "title: Fat effect, skinny reducer",
           "date: '2019-12-25T10:00:00.000Z'",
           "description: The delicate dance between reducers and side-effects",
           "---" >>) @@
    ("content/blog/three-rules-for-refactoring-functions/index.md" :>
        << "---",
           "title: 3 Rules for Refactoring Functions",
           "date: '2019-07-11T10:00:00.000Z'",
           "description: Simple steps to guarantee cleaner functions",
           "---" >>) @@
    ("content/blog/what-is-a-selector/index.md" :>
        << "---",
           "title: What is a selector?",
           "date: '2021-02-24T00:00:00.000Z'",
           "description: A quick introduction to using selectors in a redux application",
           "---" >>)

\* UnnamedPosts with the date of the first post written without quotes
UnnamedPostsBareDate ==
    ("unnamed/part_000" :>
        << "---",
           "title: Simplify testing async I/O in javascript",
           "date: 2019-04-12T10:00:00.000Z",
           "description: How to write declarative side-effects",
           "---" >>) @@
    ("unnamed/part_001" :>
        << "---",
           "title: 3 Rules for Refactoring Functions",
           "date: '2019-07-11T10:00:00.000Z'",
           "description: Simple steps to guarantee cleaner functions",
           "---" >>) @@
    ("unnamed/part_002" :>
        << "---",
           "title: Listifi tech stack",
           "date: '2021-01-25T00:00:00.000Z'",
           "description: An overview of the tech choices I made for listifi.app",
           "---" >>) @@
    ("unnamed/part_003" :>
        << "---",
           "title: Death by a thousand existential checks",
           "date: '2020-08-12T00:00:00.000Z'",
           "description: How to avoid existential checks in your codebase",
           "---" >>)

UnnamedPosts ==
    ("unnamed/part_000" :>
        << "---",
           "title: Simplify testing async I/O in javascript",
           "date: '2019-04-12T10:00:00.000Z'",
           "description: How to write declarative side-effects",
           "---" >>) @@
    ("unnamed/part_001" :>
        << "---",
           "title: 3 Rules for Refactoring Functions",
           "date: '2019-07-11T10:00:00.000Z'",
           "description: Simple steps to guarantee cleaner functions",
           "---" >>) @@
    ("unnamed/part_002" :>
        << "---",
           "title: Listifi tech stack",
           "date: '2021-01-25T00:00:00.000Z'",
           "description: An overview of the tech choices I made for listifi.app",
           "---" >>) @@
    ("unnamed/part_003" :>
        << "---",
           "title: Death by a thousand existential checks",
           "date: '2020-08-12T00:00:00.000Z'",
           "description: How to avoid existential checks in your codebase",
           "---" >>)

ContentFiles == NamedPosts @@ UnnamedPosts

PostPaths == DOMAIN ContentFiles

Digits == {"0", "1", "2", "3", "4", "5", "6", "7", "8", "9"}
DigitValue ==
    ("0" :> 0) @@ ("1" :> 1) @@ ("2" :> 2) @@ ("3" :> 3) @@ ("4" :> 4) @@
    ("5" :> 5) @@ ("6" :> 6) @@ ("7" :> 7) @@ ("8" :> 8) @@ ("9" :> 9)
Char(s, i) == SubSeq(s, i, i)
AllDigits(s) == \A i \in 1..Len(s) : Char(s, i) \in Digits
TwoDigits(s, i) == 10 * DigitValue[Char(s, i)] + DigitValue[Char(s, i + 1)]

\* YYYY-MM-DDTHH:MM:SS.mmmZ with the fields in their ranges
IsIsoTimestamp(s) ==
    /\ Len(s) = 24
    /\ Char(s, 5) = "-" /\ Char(s, 8) = "-" /\ Char(s, 11) = "T"
    /\ Char(s, 14) = ":" /\ Char(s, 17) = ":" /\ Char(s, 20) = "." /\ Char(s, 24) = "Z"
    /\ AllDigits(SubSeq(s, 1, 4)) /\ AllDigits(SubSeq(s, 6, 7))
    /\ AllDigits(SubSeq(s, 9, 10)) /\ AllDigits(SubSeq(s, 12, 13))
    /\ AllDigits(SubSeq(s, 15, 16)) /\ AllDigits(SubSeq(s, 18, 19))
    /\ AllDigits(SubSeq(s, 21, 23))
    /\ TwoDigits(s, 6) \in 1..12
    /\ TwoDigits(s, 9) \in 1..31
    /\ TwoDigits(s, 12) \in 0..23
    /\ TwoDigits(s, 15) \in 0..59
    /\ TwoDigits(s, 18) \in 0..59

\* a YAML scalar: text in single quotes is a string, bare text that reads as
\* a timestamp is a date and not a string, any other bare text is a string
Scalar(text) ==
    IF Len(text) >= 2 /\ Char(text, 1) = "'" /\ Char(text, Len(text)) = "'"
    THEN Str(SubSeq(text, 2, Len(text) - 1))
    ELSE IF IsIsoTimestamp(text) THEN [t |-> "date", iso |-> text]
    ELSE Str(text)

\* text without the blanks at its start
RECURSIVE TrimStart(_)
TrimStart(text) ==
    IF Len(text) > 0 /\ Char(text, 1) = " " THEN TrimStart(SubSeq(text, 2, Len(text)))
    ELSE text

HasColon(line) == \E i \in 1..Len(line) : Char(line, i) = ":"
ColonAt(line) ==
    CHOOSE i \in 1..Len(line) :
        Char(line, i) = ":" /\ \A j \in 1..(i - 1) : Char(line, j) # ":"

\* the front matter of a file: the "key: value" lines between the opening ---
\* of line 1 and the closing ---; an indented line carries on the value of
\* the key above it.  NoFrontMatter when line 1 is not --- or none closes it.
NoFrontMatter == [t |-> "none"]
FrontMatter(lines) ==
    IF Len(lines) < 2 \/ lines[1] # "---"
       \/ ~\E n \in 2..Len(lines) : lines[n] = "---"
    THEN NoFrontMatter
    ELSE
    LET close == CHOOSE n \in 2..Len(lines) :
                     lines[n] = "---" /\ \A m \in 2..(n - 1) : lines[m] # "---"
        \* raw[i]: the keys read in lines 2..i with their text, and the last key
        raw[i \in 1..(close - 1)] ==
            IF i = 1 THEN [text |-> <<>>, last |-> ""]
            ELSE LET line == lines[i]
                     sofar == raw[i - 1]
                 IN IF Len(line) > 0 /\ Char(line, 1) = " "
                    THEN IF sofar.last = "" THEN sofar
                         ELSE [sofar EXCEPT !.text =
                                  (sofar.last :>
                                      (IF sofar.text[sofar.last] = "" THEN TrimStart(line)
                                       ELSE sofar.text[sofar.last] \o " " \o TrimStart(line)))
                                  @@ sofar.text]
                    ELSE IF HasColon(line)
                    THEN LET key == SubSeq(line, 1, ColonAt(line) - 1)
                             value == TrimStart(SubSeq(line, ColonAt(line) + 1, Len(line)))
                         IN [text |-> (key :> value) @@ sofar.text, last |-> key]
                    ELSE sofar
        fields == raw[close - 1].text
    IN Obj([k \in DOMAIN fields |-> Scalar(fields[k])])

\* the front matter of each post, as the build reads it
ParsedFiles == [path \in PostPaths |-> FrontMatter(ContentFiles[path])]

ContentInit ==
    /\ read = {}
    /\ frontmatter = <<>>

\* the build reads one more post and keeps its front matter
SourcePost ==
    /\ \E path \in PostPaths \ read :
        /\ read' = read \cup {path}
        /\ frontmatter' = (path :> ParsedFiles[path]) @@ frontmatter
    /\ UNCHANGED nonContentVars

(***************************************************************************)
(* "Simplify testing async I/O in javascript": fetchAndSaveMovie, version 2 *)
(***************************************************************************)
Num(n) == [t |-> "number", n |-> n]
Error(message) == [t |-> "error", name |-> "Error", message |-> message]
TypeError == [t |-> "error", name |-> "TypeError"]

\* the decimal digits of a natural number
RECURSIVE NumberString(_)
NumberString(n) ==
    LET digit == SubSeq("0123456789", (n % 10) + 1, (n % 10) + 1)
    IN IF n < 10 THEN digit ELSE NumberString(n \div 10) \o digit

\* JSON.stringify(v, null, 2) for undefined, null, strings, natural numbers
\* and objects of these; the keys of an object are written in one fixed order
RECURSIVE JsonFields(_, _)
JsonStringify(v) ==
    CASE v.t = "undefined" -> Undefined
      [] v.t = "null" -> Str("null")
      [] v.t = "string" -> Str("\"" \o v.s \o "\"")
      [] v.t = "number" -> Str(NumberString(v.n))
      [] v.t = "object" ->
            IF DOMAIN v.f = {} THEN Str("{}")
            ELSE Str("{\n" \o JsonFields(v.f, DOMAIN v.f) \o "\n}")
      [] OTHER -> Undefined
JsonFields(f, keys) ==
    LET k == CHOOSE j \in keys : TRUE
        field == "  \"" \o k \o "\": " \o JsonStringify(f[k]).s
    IN IF keys = {k} THEN field
       ELSE field \o ",\n" \o JsonFields(f, keys \ {k})

\* what cofx's call returns: { type: 'CALL', fn, args }
Call(fn, args) == [type |-> "CALL", fn |-> fn, args |-> args]
Fn(name) == [name |-> name]
Method(ctx, name) == [ctx |-> ctx, method |-> name]

\* what a call on a generator gives: { done, value }, or an error thrown
IterResult(done, value) == [threw |-> FALSE, done |-> done, value |-> value]
GenThrew(error) == [threw |-> TRUE, error |-> error]
NoResult == [threw |-> FALSE]

\* the generator object made by fetchAndSaveMovie(id), not yet started
fetchAndSaveMovie(id) ==
    [pc |-> "start", id |-> id, resp |-> Undefined, movie |-> Undefined,
     data |-> Undefined, msg |-> Undefined]

Closed(g) == [g EXCEPT !.pc = "closed"]

\* first next(): run to the first yield
FromStart(g, v) ==
    [gen |-> [g EXCEPT !.pc = "fetch"],
     ret |-> IterResult(FALSE,
                 Call(Fn("fetch"),
                      << Str("http://localhost/movies/" \o TemplateString(g.id)) >>))]

\* FromFetch comparing the status with != : the string '200' passes for 200
FromFetchLoose(g, v) ==
    IF IsNullish(v) THEN [gen |-> Closed(g), ret |-> GenThrew(TypeError)]
    ELSE IF Get(v, "status") \notin {Num(200), Str("200")}
    THEN [gen |-> Closed([g EXCEPT !.resp = v]),
          ret |-> GenThrew(Error("request unsuccessful"))]
    ELSE [gen |-> [g EXCEPT !.pc = "json", !.resp = v],
          ret |-> IterResult(FALSE, Call(Method(v, "json"), <<>>))]

\* next(v) at the fetch yield: resp = v, the status check, the second yield
FromFetch(g, v) ==
    IF IsNullish(v) THEN [gen |-> Closed(g), ret |-> GenThrew(TypeError)]
    ELSE IF Get(v, "status") # Num(200)
    THEN [gen |-> Closed([g EXCEPT !.resp = v]),
          ret |-> GenThrew(Error("request unsuccessful"))]
    ELSE [gen |-> [g EXCEPT !.pc = "json", !.resp = v],
          ret |-> IterResult(FALSE, Call(Method(v, "json"), <<>>))]

\* FromJson handing the movie itself to writeFile
FromJsonRaw(g, v) ==
    [gen |-> [g EXCEPT !.pc = "writeFile", !.movie = v, !.data = v, !.msg = Str("")],
     ret |-> IterResult(FALSE, Call(Fn("writeFile"), << Str("movie.json"), v >>))]

\* next(v) at the json yield: movie = v, data, fname, msg = '', the third yield
FromJson(g, v) ==
    [gen |-> [g EXCEPT !.pc = "writeFile", !.movie = v, !.data = JsonStringify(v),
                       !.msg = Str("")],
     ret |-> IterResult(FALSE,
                 Call(Fn("writeFile"), << Str("movie.json"), JsonStringify(v) >>))]

\* next(v) at the writeFile yield: msg = `saved ${fname}`, return msg
FromWriteFile(g, v) ==
    [gen |-> Closed([g EXCEPT !.msg = Str("saved " \o "movie.json")]),
     ret |-> IterResult(TRUE, Str("saved " \o "movie.json"))]

\* gen.next(v)
GenNext(g, v) ==
    CASE g.pc = "start" -> FromStart(g, v)
      [] g.pc = "fetch" -> FromFetch(g, v)
      [] g.pc = "json" -> FromJson(g, v)
      [] g.pc = "writeFile" -> FromWriteFile(g, v)
      [] OTHER -> [gen |-> g, ret |-> IterResult(TRUE, Undefined)]

\* GenThrow without the try around the writeFile yield
GenThrowUncaught(g, e) == [gen |-> Closed(g), ret |-> GenThrew(e)]

\* gen.throw(e): only the writeFile yield is inside a try; its catch sets
\* msg = err and the generator returns msg
GenThrow(g, e) ==
    IF g.pc = "writeFile"
    THEN [gen |-> Closed([g EXCEPT !.msg = e]), ret |-> IterResult(TRUE, e)]
    ELSE [gen |-> Closed(g), ret |-> GenThrew(e)]

Ids == {Str("1"), Str("2"), Str("3")}
Movie == Obj([name |-> Str("Lord of the Rings")])
FedValues ==
    { Undefined,
      Obj([status |-> Num(200)]), Obj([status |-> Num(500)]),
      Obj([status |-> Str("200")]),
      Movie }
ThrownValues == { Str("some error"), Error("EACCES") }

NoGenerator == [pc |-> "none"]

(***************************************************************************)
(* "Simplify testing async I/O in javascript": writeFile, version 1        *)
(***************************************************************************)
\* if (v) ...
Truthy(v) ==
    CASE v.t \in {"undefined", "null"} -> FALSE
      [] v.t = "string" -> v.s # ""
      [] v.t = "number" -> v.n # 0
      [] v.t = "boolean" -> v.b
      [] OTHER -> TRUE

\* new Promise(...): nothing has settled it, fs has not called back
NotCalled == [t |-> "not called"]
Pending(fname, data) ==
    [fname |-> fname, data |-> data, state |-> "pending", value |-> Undefined,
     settles |-> 0, calls |-> <<>>, err |-> NotCalled]

\* the resolve and reject functions of a promise: the first call settles it,
\* later calls change nothing
Resolve(p, v) ==
    IF p.state = "pending"
    THEN [p EXCEPT !.state = "fulfilled", !.value = v, !.settles = @ + 1,
                   !.calls = Append(@, "resolve")]
    ELSE [p EXCEPT !.calls = Append(@, "resolve")]
Reject(p, e) ==
    IF p.state = "pending"
    THEN [p EXCEPT !.state = "rejected", !.value = e, !.settles = @ + 1,
                   !.calls = Append(@, "reject")]
    ELSE [p EXCEPT !.calls = Append(@, "reject")]

\* WriteFileCallback resolving before it looks at err
WriteFileCallbackResolveFirst(p, err) ==
    LET resolved == Resolve([p EXCEPT !.err = err], Str("saved " \o TemplateString(p.fname)))
    IN IF Truthy(err) THEN Reject(resolved, err) ELSE resolved

\* the callback handed to fs.writeFile: if (err) { reject(err); } and then,
\* with no return in between, resolve(`saved ${fname}`)
WriteFileCallback(p, err) ==
    LET checked == IF Truthy(err) THEN Reject([p EXCEPT !.err = err], err)
                   ELSE [p EXCEPT !.err = err]
    IN Resolve(checked, Str("saved " \o TemplateString(p.fname)))

Fnames == {Str("movie.json"), Str("notes.txt")}
FileData == {Str("{}"), JsonStringify(Movie)}
\* what fs hands to the callback: nothing or null when the write succeeded,
\* otherwise the error
CallbackErrors == {Undefined, Null, Str("some error"), Error("EACCES")}

WriteFileInit == promises = <<>>

\* writeFile(fname, data): the promise is returned and fs.writeFile is started
writeFile ==
    /\ Len(promises) < MaxWrites
    /\ \E fname \in Fnames, data \in FileData :
           promises' = Append(promises, Pending(fname, data))
    /\ UNCHANGED genVars
    /\ UNCHANGED nonMovieVars

\* fs calls back for one of the writes in flight
FsCallsBack ==
    /\ \E i \in 1..Len(promises), err \in CallbackErrors :
        /\ promises[i].err = NotCalled
        /\ promises' = [promises EXCEPT ![i] = WriteFileCallback(@, err)]
    /\ UNCHANGED genVars
    /\ UNCHANGED nonMovieVars

GenInit ==
    /\ gen = NoGenerator
    /\ fed = <<>>
    /\ effects = <<>>
    /\ ret = NoResult

MovieInit == GenInit /\ WriteFileInit

\* const gen = fetchAndSaveMovie(id)
CreateGenerator ==
    /\ gen = NoGenerator
    /\ \E id \in Ids : gen' = fetchAndSaveMovie(id)
    /\ UNCHANGED <<fed, effects, ret, promises>>
    /\ UNCHANGED nonMovieVars

Resumed(mode, v, r) ==
    /\ gen' = r.gen
    /\ ret' = r.ret
    /\ fed' = Append(fed, [mode |-> mode, value |-> v])
    /\ effects' = IF ~r.ret.threw /\ ~r.ret.done THEN Append(effects, r.ret.value)
                  ELSE effects

\* gen.next(v)
CallNext ==
    /\ gen # NoGenerator
    /\ Len(fed) < MaxCalls
    /\ \E v \in FedValues : Resumed("next", v, GenNext(gen, v))
    /\ UNCHANGED promises
    /\ UNCHANGED nonMovieVars

\* gen.throw(e)
CallThrow ==
    /\ gen # NoGenerator
    /\ Len(fed) < MaxCalls
    /\ \E e \in ThrownValues : Resumed("throw", e, GenThrow(gen, e))
    /\ UNCHANGED promises
    /\ UNCHANGED nonMovieVars

(***************************************************************************)
(* "Recreating redux-toolkit's createSlice": createAction, createReducer   *)
(***************************************************************************)
Bool(b) == [t |-> "boolean", b |-> b]

\* createAction(type) applied to a payload: { type, payload }
createAction(type, payload) == [type |-> type, payload |-> payload]

\* what a reducer gives: the next state, or an error thrown
NextState(state) == [threw |-> FALSE, state |-> state]
ReducerThrew(error) == [threw |-> TRUE, error |-> error]

\* a function, and the members a plain object inherits from
\* Object.prototype: constructor is Object, toString is
\* Object.prototype.toString
FunctionValue(name) == [t |-> "function", name |-> name]
ObjectPrototype == {"constructor", "toString"}
Inherited(key) ==
    FunctionValue(IF key = "constructor" THEN "Object"
                  ELSE "Object.prototype." \o key)

\* object[key] on a plain object: the own property, else the inherited
\* member, else undefined
Lookup(object, key) ==
    IF key \in DOMAIN object.f THEN object.f[key]
    ELSE IF key \in ObjectPrototype THEN Inherited(key)
    ELSE Undefined

\* an array, and a primitive wrapped by Object(value)
Arr(items) == [t |-> "array", items |-> items]
Boxed(v) == [t |-> "boxed", v |-> v]

\* String(v) for the values a state can be; an array joins its elements by ","
ValueString(v) ==
    CASE v.t = "string" -> v.s
      [] v.t = "number" -> NumberString(v.n)
      [] v.t = "boxed" -> NumberString(v.v.n)
      [] v.t = "array" ->
            LET F[i \in 0..Len(v.items)] ==
                    IF i = 0 THEN ""
                    ELSE F[i - 1] \o (IF i = 1 THEN "" ELSE ",") \o "[object Object]"
            IN F[Len(v.items)]
      [] OTHER -> "[object Object]"

\* the functions a reducers object can hold, called as fn(state, payload).
\* addTodo is (state, payload) => [...state, action.payload]: no action is
\* in scope there, so reading it throws a ReferenceError.  toggleTodo maps
\* over the todos.  increment is (state, payload) => state += 1.  Object
\* returns an object as it is and wraps a primitive;
\* Object.prototype.toString called with no receiver gives
\* '[object Undefined]'.
CaseReducer(fn, state, payload) ==
    CASE fn.name = "addTodo" -> ReducerThrew("ReferenceError")
      [] fn.name = "toggleTodo" ->
            IF state.t # "array" THEN ReducerThrew("TypeError")
            ELSE NextState(Arr([i \in 1..Len(state.items) |->
                          IF Get(state.items[i], "id") = payload
                          THEN Obj([k \in DOMAIN state.items[i].f |->
                                       IF k = "completed"
                                       THEN Bool(~Truthy(state.items[i].f[k]))
                                       ELSE state.items[i].f[k]])
                          ELSE state.items[i]]))
      [] fn.name = "increment" ->
            IF state.t = "number" THEN NextState(Num(state.n + 1))
            ELSE IF state.t = "boxed" THEN NextState(Num(state.v.n + 1))
            ELSE NextState(Str(ValueString(state) \o "1"))
      [] fn.name = "Object" ->
            IF state.t \in {"array", "object", "boxed"} THEN NextState(state)
            ELSE NextState(Boxed(state))
      [] fn.name = "Object.prototype.toString" ->
            NextState(Str("[object Undefined]"))

\* the reducer returned by createReducer(initialState, reducers), applied to
\* a state and an action; reducers is the object holding the case reducers
createReducer(initialState, reducers, state, action) ==
    LET current == IF state = Undefined THEN initialState ELSE state
        caseReducer == Lookup(reducers, action.type)
    IN IF ~Truthy(caseReducer) THEN NextState(current)
       ELSE CaseReducer(caseReducer, current, action.payload)

\* the example: the action creators are made for 'ADD_TODO' and
\* 'TOGGLE_TODO', the reducers object has the keys addTodo and toggleTodo
addTodo(todo) == createAction("ADD_TODO", todo)
toggleTodo(id) == createAction("TOGGLE_TODO", id)
ExampleReducers ==
    Obj([addTodo |-> FunctionValue("addTodo"),
         toggleTodo |-> FunctionValue("toggleTodo")])
reducer(state, action) == createReducer(Arr(<<>>), ExampleReducers, state, action)

Todo(id, text, completed) ==
    Obj([id |-> Str(id), text |-> Str(text), completed |-> Bool(completed)])
Todo1 == Todo("1", "byo createAction", TRUE)
Todo2 == Todo("2", "byo createReducer", FALSE)
Todo3 == Todo("3", "byo createSlice", FALSE)

\* the actions of the example, and two actions typed by the keys of the
\* reducers object
Actions ==
    { addTodo(Todo1), addTodo(Todo2), addTodo(Todo3), toggleTodo(Str("2")),
      createAction("addTodo", Todo1), createAction("toggleTodo", Str("2")) }

\* createStore(reducer, []): the store holds the preloaded state after the
\* init action, which no key of the reducers object matches
StoreInit ==
    /\ store = reducer(Arr(<<>>), createAction("@@redux/INIT", Undefined)).state
    /\ dispatched = <<>>
    /\ dispatchRet = NoResult

\* store.dispatch(action): the state becomes what the reducer gives; when the
\* reducer throws, dispatch throws and the state stays
Dispatch ==
    /\ Len(dispatched) < MaxDispatches
    /\ \E action \in Actions :
        LET r == reducer(store, action) IN
        /\ dispatched' = Append(dispatched, action)
        /\ store' = IF r.threw THEN store ELSE r.state
        /\ dispatchRet' = IF r.threw THEN r ELSE [threw |-> FALSE, action |-> action]
    /\ UNCHANGED nonStoreVars

(***************************************************************************)
(* "Recreating redux-toolkit's createSlice": createSlice                   *)
(***************************************************************************)
\* actionTypeBuilder(slice)(action)
actionTypeBuilder(slice, action) ==
    IF slice # "" THEN slice \o "/" \o action ELSE action

\* createSlice(options): options.extraReducers holds the contents of the
\* object handed in, or of the fresh {} of the default.  actionKeys.reduce
\* starts from that very object and assigns every scoped type into it, so
\* reducerMap is the contents of the object after the call.  An action
\* creator is given by the type it was made for.
createSlice(options) ==
    LET actionKeys == DOMAIN options.reducers.f
        types == { actionTypeBuilder(options.name, k) : k \in actionKeys }
        keyOf(type) ==
            CHOOSE k \in actionKeys : actionTypeBuilder(options.name, k) = type
        reducerMap ==
            Obj([type \in DOMAIN options.extraReducers.f \cup types |->
                    IF type \in types THEN options.reducers.f[keyOf(type)]
                    ELSE options.extraReducers.f[type]])
    IN [name |-> options.name,
        initialState |-> options.initialState,
        reducers |-> options.reducers,
        actions |-> [k \in actionKeys |-> actionTypeBuilder(options.name, k)],
        reducerMap |-> reducerMap]

\* the object a slice's reducer looks its case reducers up in: the caller's
\* extraReducers object when one was handed in, else the slice's own
ReducerMapOf(slice) == IF slice.shared THEN extra ELSE slice.reducerMap

\* the arguments createSlice is called with
Counter(name) ==
    [name |-> name, initialState |-> Num(0),
     reducers |-> Obj([increment |-> FunctionValue("increment")])]
Todos ==
    [name |-> "todos", initialState |-> Arr(<< Todo1, Todo2 >>),
     reducers |-> Obj([addTodo |-> FunctionValue("addTodo"),
                       toggleTodo |-> FunctionValue("toggleTodo")])]
SliceOptions == { Counter(""), Counter("counter"), Counter("clicks"), Todos }

\* the extraReducers object of the caller before any slice is made
ExtraReducers == Obj([INCREMENT |-> FunctionValue("increment")])

NotApplied == [n |-> 0]

SliceInit ==
    /\ extra = ExtraReducers
    /\ slices = <<>>
    /\ sliceStates = <<>>
    /\ applied = NotApplied

\* createSlice({ name, initialState, reducers }) or
\* createSlice({ name, initialState, reducers, extraReducers: extra })
CallCreateSlice ==
    /\ Len(slices) < MaxSlices
    /\ \E options \in SliceOptions, shared \in BOOLEAN :
        LET given == IF shared THEN extra ELSE Obj(<<>>)
            slice == createSlice([name |-> options.name,
                                  initialState |-> options.initialState,
                                  reducers |-> options.reducers,
                                  extraReducers |-> given])
        IN /\ slices' = Append(slices,
                            [name |-> slice.name,
                             initialState |-> slice.initialState,
                             reducers |-> slice.reducers,
                             actions |-> slice.actions,
                             reducerMap |-> slice.reducerMap,
                             shared |-> shared])
           /\ extra' = IF shared THEN slice.reducerMap ELSE extra
           /\ sliceStates' = Append(sliceStates, Undefined)
    /\ UNCHANGED <<applied, nonSliceVars>>

\* the payload a case reducer of the examples is handed
PayloadsOf(key) ==
    CASE key = "addTodo" -> {Todo3}
      [] key = "toggleTodo" -> {Str("2")}
      [] OTHER -> {Undefined}

\* actions that no action creator of the slices made
OutsideActions ==
    { createAction("@@redux/INIT", Undefined), createAction("INCREMENT", Undefined),
      createAction("toString", Undefined) }

\* slice.reducer(state, action), the state being what the reducer returned
\* last; a reducer that throws leaves it
CallSliceReducer ==
    /\ applied.n < MaxApplied
    /\ \E i \in 1..Len(slices) :
       \E action \in
            { createAction(slices[j].actions[k], p) :
                <<j, k, p>> \in
                    { <<j, k, p>> \in (1..Len(slices))
                                      \X {"increment", "addTodo", "toggleTodo"}
                                      \X {Undefined, Todo3, Str("2")} :
                        /\ k \in DOMAIN slices[j].actions
                        /\ p \in PayloadsOf(k) } }
            \cup OutsideActions :
        LET before == IF sliceStates[i] = Undefined THEN slices[i].initialState
                      ELSE sliceStates[i]
            r == createReducer(slices[i].initialState, ReducerMapOf(slices[i]),
                               sliceStates[i], action)
        IN /\ applied' = [n |-> applied.n + 1, slice |-> i, action |-> action,
                          reducers |-> ReducerMapOf(slices[i]),
                          before |-> before, out |-> r]
           /\ sliceStates' = [sliceStates EXCEPT ![i] =
                                 IF r.threw THEN @ ELSE r.state]
    /\ UNCHANGED <<extra, slices, nonSliceVars>>

(***************************************************************************)
(* "3 Rules for Refactoring Functions": the versions of register           *)
(***************************************************************************)
\* the stubs: an email is valid when it holds an @, available when no user
\* has it, and a password is valid when it is 8 characters long or longer
isEmailValid(email) == Contains(email, "@")
isEmailAvailable(email, us) == email \notin us
isPassValid(pass) == Len(pass) >= 8

\* the stubs of the last version return the error message of their check,
\* and nothing when the check passes
validateEmail(email) ==
    IF isEmailValid(email) THEN Str("") ELSE Str("email is invalid")
validateEmailAvailable(email, us) ==
    IF isEmailAvailable(email, us) THEN Str("") ELSE Str("email is already taken")
validatePass(pass) ==
    IF isPassValid(pass) THEN Str("") ELSE Str("password must be 8 characters long")

\* a return of register: the response, and whether createUser was called
ErrorResponse(payload) ==
    [created |-> FALSE, response |-> [type |-> "error", payload |-> payload]]
\* const userId = createUser(email, pass); return { type: 'success', ... }
CreateUser(us) ==
    [created |-> TRUE,
     response |-> [type |-> "success",
                   payload |-> Obj([userId |-> Num(Cardinality(us) + 1)])]]

registerNested(email, pass, us) ==
    IF isEmailValid(email) /\ isEmailAvailable(email, us)
    THEN IF isPassValid(pass) THEN CreateUser(us)
         ELSE ErrorResponse(Str("password must be 8 characters long"))
    ELSE ErrorResponse(Str("email is invalid"))

registerReturnEarly(email, pass, us) ==
    IF ~isEmailValid(email) \/ ~isEmailAvailable(email, us) \/ ~isPassValid(pass)
    THEN ErrorResponse(Str("validation failed"))
    ELSE CreateUser(us)

registerReturnOften(email, pass, us) ==
    IF ~isEmailValid(email) \/ ~isEmailAvailable(email, us)
    THEN ErrorResponse(Str("email is invalid"))
    ELSE IF ~isPassValid(pass)
    THEN ErrorResponse(Str("password must be 8 characters long"))
    ELSE CreateUser(us)

registerFinal(email, pass, us) ==
    IF ~isEmailValid(email) THEN ErrorResponse(Str("email is invalid"))
    ELSE IF ~isEmailAvailable(email, us)
    THEN ErrorResponse(Str("email is already taken"))
    ELSE IF ~isPassValid(pass)
    THEN ErrorResponse(Str("password must be 8 characters long"))
    ELSE CreateUser(us)

\* registerDynamic with the password validated first
registerDynamicPassFirst(email, pass, us) ==
    LET validations == << validatePass(pass), validateEmail(email),
                          validateEmailAvailable(email, us) >>
        failing == { i \in 1..Len(validations) : Truthy(validations[i]) }
    IN IF failing # {}
       THEN ErrorResponse(validations[CHOOSE i \in failing : \A j \in failing : i <= j])
       ELSE CreateUser(us)

\* the loop returns at the first validation that gave a message
registerDynamic(email, pass, us) ==
    LET validations == << validateEmail(email), validateEmailAvailable(email, us),
                          validatePass(pass) >>
        failing == { i \in 1..Len(validations) : Truthy(validations[i]) }
    IN IF failing # {}
       THEN ErrorResponse(validations[CHOOSE i \in failing : \A j \in failing : i <= j])
       ELSE CreateUser(us)

Versions == {"nested", "return early", "return often", "final", "dynamic"}
register(version, email, pass, us) ==
    CASE version = "nested" -> registerNested(email, pass, us)
      [] version = "return early" -> registerReturnEarly(email, pass, us)
      [] version = "return often" -> registerReturnOften(email, pass, us)
      [] version = "final" -> registerFinal(email, pass, us)
      [] version = "dynamic" -> registerDynamic(email, pass, us)

Emails == {"eric@erock.io", "bower@erock.io", "me@erock.io", "eric", "nobody"}
Passes == {"12345678", "1234"}
NotRegistered == [version |-> "none"]

\* two users exist, one of them under a name that is no valid email
RegisterInit ==
    /\ users = {"me@erock.io", "nobody"}
    /\ registered = NotRegistered

CallRegister ==
    /\ \E version \in Versions, email \in Emails, pass \in Passes :
        LET r == register(version, email, pass, users) IN
        /\ users' = IF r.created THEN users \cup {email} ELSE users
        /\ registered' = [version |-> version, email |-> email, pass |-> pass,
                          before |-> users, created |-> r.created,
                          response |-> r.response]
    /\ UNCHANGED nonRegisterVars

(***************************************************************************)
(* "redux-saga style guide": onFetchArticles, onFetchPeople                *)
(***************************************************************************)
\* put(action), and batchActions(actions) of redux-batched-actions
Put(action) == [type |-> "PUT", action |-> action]
batchActions(actions) == [type |-> "BATCHING_REDUCER.BATCH", payload |-> actions]

setLoaderStart == [type |-> "setLoaderStart", payload |-> Undefined]
setLoaderError(resp) == [type |-> "setLoaderError", payload |-> resp]
setLoaderSuccess == [type |-> "setLoaderSuccess", payload |-> Undefined]
addPeople(people) == [type |-> "people/add", payload |-> people]
setArticles(articleMap) == [type |-> "articles/set", payload |-> articleMap]
setArticleOrder(articleOrder) == [type |-> "articleOrder/set", payload |-> articleOrder]
fetchPeople(orgId) == [type |-> "FETCH_PEOPLE", payload |-> orgId]

\* apiSuccess(resp) of @app/fetch: whether the response is the successful one
apiSuccess(resp) == Get(resp, "ok") = Bool(TRUE)

transformPerson(p) ==
    Obj([id |-> Get(p, "id"), name |-> Get(p, "name"), email |-> Get(p, "email"),
         createdAt |-> Get(p, "created_at"), updatedAt |-> Get(p, "updated_at")])

\* list.reduce((acc, entity) => { acc[entity.id] = entity; return acc }, {}):
\* of two entities with one id the later one stays
ById(list) ==
    [id \in { Get(list[i], "id").s : i \in 1..Len(list) } |->
        list[CHOOSE i \in 1..Len(list) :
                /\ Get(list[i], "id").s = id
                /\ \A j \in 1..Len(list) : Get(list[j], "id").s = id => j <= i]]

\* what a step of a saga gives: the generator, and the effect it yielded or
\* how it ended
Yield(g, pc, effect) ==
    [gen |-> [g EXCEPT !.pc = pc], done |-> FALSE, threw |-> FALSE, effect |-> effect]
Return(g) == [gen |-> [g EXCEPT !.pc = "done"], done |-> TRUE, threw |-> FALSE]
Throw(g, error) ==
    [gen |-> [g EXCEPT !.pc = "threw"], done |-> TRUE, threw |-> TRUE, error |-> error]

\* the generator objects, not yet started
onFetchPeople(action) ==
    [saga |-> "onFetchPeople", pc |-> "start", action |-> action, v |-> Undefined]
onFetchArticles ==
    [saga |-> "onFetchArticles", pc |-> "start", action |-> Undefined, v |-> Undefined]

\* PeopleAfterApiFetch putting the people before it looks at the response
PeopleAfterApiFetchEager(g, v) ==
    LET list == Get(Get(v, "data"), "people")
        people == IF list = Undefined THEN <<>> ELSE list.items
        curPeople == ById([i \in 1..Len(people) |-> transformPerson(people[i])])
    IN Yield([g EXCEPT !.v = v], "batch",
             Put(batchActions(<< addPeople(curPeople),
                                 IF apiSuccess(v) THEN setLoaderSuccess
                                 ELSE setLoaderError(v) >>)))

\* next(v) of onFetchPeople at the apiFetch yield: resp = v, the check of
\* apiSuccess, curPeople, the put of the batch
PeopleAfterApiFetch(g, v) ==
    IF ~apiSuccess(v) THEN Yield([g EXCEPT !.v = v], "loaderError", Put(setLoaderError(v)))
    ELSE LET people == Get(Get(v, "data"), "people").items
             curPeople == ById([i \in 1..Len(people) |-> transformPerson(people[i])])
         IN Yield([g EXCEPT !.v = v], "batch",
                  Put(batchActions(<< addPeople(curPeople), setLoaderSuccess >>)))

onFetchPeopleNext(g, v) ==
    CASE g.pc = "start" ->
            IF ~Truthy(g.action.payload) THEN Return(g)
            ELSE Yield(g, "loaderStart", Put(setLoaderStart))
      [] g.pc = "loaderStart" ->
            Yield(g, "apiFetch",
                  Call(Fn("apiFetch"),
                       << Str("/orgs/" \o TemplateString(g.action.payload) \o "/people") >>))
      [] g.pc = "apiFetch" -> PeopleAfterApiFetch(g, v)
      [] OTHER -> Return(g)

\* ArticlesAfterJson putting the table alone
ArticlesAfterJsonTableOnly(g, v) ==
    IF v.t # "array" THEN Throw(g, TypeError)
    ELSE Yield([g EXCEPT !.v = v], "batch", Put(setArticles(ById(v.items))))

\* next(v) of onFetchArticles at the json yield: articles = v, articleOrder,
\* articleMap, the put of the batch
ArticlesAfterJson(g, v) ==
    IF v.t # "array" THEN Throw(g, TypeError)
    ELSE Yield([g EXCEPT !.v = v], "batch",
               Put(batchActions(
                   << setArticles(ById(v.items)),
                      setArticleOrder([i \in 1..Len(v.items) |-> Get(v.items[i], "id")]) >>)))

onFetchArticlesNext(g, v) ==
    CASE g.pc = "start" -> Yield(g, "fetch", Call(Fn("fetch"), << Str("/articles") >>))
      [] g.pc = "fetch" -> Yield(g, "json", Call(Method(v, "json"), <<>>))
      [] g.pc = "json" -> ArticlesAfterJson(g, v)
      [] OTHER -> Return(g)

\* gen.next(v) and gen.throw(e): neither saga has a try, so an error thrown
\* in at a yield ends it
SagaStep(g, v) ==
    IF g.saga = "onFetchPeople" THEN onFetchPeopleNext(g, v)
    ELSE onFetchArticlesNext(g, v)
SagaThrow(g, e) == Throw(g, e)

\* the reducers: the loader slice, the people table (add merges), the
\* articles table and its order (set replaces); a batch is reduced as a whole
RECURSIVE Reduce(_, _)
ReduceAll(st, actions) ==
    LET F[i \in 0..Len(actions)] ==
            IF i = 0 THEN st ELSE Reduce(F[i - 1], actions[i])
    IN F[Len(actions)]
Reduce(st, action) ==
    CASE action.type = "BATCHING_REDUCER.BATCH" -> ReduceAll(st, action.payload)
      [] action.type = "setLoaderStart" -> [st EXCEPT !.loader = "loading"]
      [] action.type = "setLoaderError" -> [st EXCEPT !.loader = "error"]
      [] action.type = "setLoaderSuccess" -> [st EXCEPT !.loader = "success"]
      [] action.type = "people/add" ->
            [st EXCEPT !.people =
                [id \in DOMAIN action.payload \cup DOMAIN st.people |->
                    IF id \in DOMAIN action.payload THEN action.payload[id]
                    ELSE st.people[id]]]
      [] action.type = "articles/set" -> [st EXCEPT !.articles = action.payload]
      [] action.type = "articleOrder/set" -> [st EXCEPT !.articleOrder = action.payload]
      [] OTHER -> st

\* what the API can answer
PersonResponse(id, name) ==
    Obj([id |-> Str(id), name |-> Str(name), email |-> Str(name \o "@erock.io"),
         created_at |-> Str("2020-05-01"), updated_at |-> Str("2020-05-02")])
PeopleResponses ==
    { Obj([ok |-> Bool(TRUE), data |-> Obj([people |-> Arr(people)])]) :
        people \in { <<>>, << PersonResponse("1", "eric") >>,
                     << PersonResponse("2", "bower"), PersonResponse("1", "eric") >> } }
    \cup { Obj([ok |-> Bool(FALSE), data |-> Obj([message |-> Str("not found")])]) }
Article(id, title) ==
    Obj([id |-> Str(id), title |-> Str(title), post |-> Str(""), author |-> Str("eric")])
ArticleLists ==
    { Arr(<<>>), Arr(<< Article("1", "sagas") >>),
      Arr(<< Article("2", "robodux"), Article("1", "sagas") >>),
      Arr(<< Article("1", "sagas"), Article("2", "robodux") >>) }
FetchResponse == Obj([status |-> Num(200)])
OrgIds == { Str("org1"), Str(""), Undefined }

\* the outcomes of a call effect: the values the function can return, or an
\* error thrown
Returns(call) ==
    CASE call.fn = Fn("apiFetch") -> PeopleResponses
      [] call.fn = Fn("fetch") -> { FetchResponse }
      [] OTHER -> ArticleLists
CallErrors == { Error("Failed to fetch") }

NoTask == [n |-> 0, gen |-> [saga |-> "none", pc |-> "done"], done |-> TRUE, threw |-> FALSE]

SagaInit ==
    /\ task = NoTask
    /\ yielded = <<>>
    /\ db = [people |-> <<>>, loader |-> "idle", articles |-> <<>>, articleOrder |-> <<>>]

\* the step of the running saga that the middleware just took
Stepped(r) ==
    /\ task' = [n |-> task.n, gen |-> r.gen, done |-> r.done, threw |-> r.threw]
    /\ yielded' = IF r.done THEN yielded ELSE Append(yielded, r.effect)

\* takeEvery: an action starts a saga, which runs to its first yield
TakeEvery ==
    /\ task.done
    /\ task.n < MaxTasks
    /\ \E g \in { onFetchPeople(fetchPeople(orgId)) : orgId \in OrgIds }
                \cup { onFetchArticles } :
        LET r == SagaStep(g, Undefined) IN
        /\ task' = [n |-> task.n + 1, gen |-> r.gen, done |-> r.done, threw |-> r.threw]
        /\ yielded' = IF r.done THEN <<>> ELSE << r.effect >>
    /\ UNCHANGED <<db, nonSagaVars>>

\* the middleware runs a put: the action is dispatched, the saga resumed
RunPut ==
    /\ ~task.done
    /\ yielded[Len(yielded)].type = "PUT"
    /\ db' = Reduce(db, yielded[Len(yielded)].action)
    /\ Stepped(SagaStep(task.gen, Undefined))
    /\ UNCHANGED nonSagaVars

\* the middleware runs a call: the saga is resumed with what the function
\* returned, or the error it threw is thrown in
RunCall ==
    /\ ~task.done
    /\ yielded[Len(yielded)].type = "CALL"
    /\ \/ \E v \in Returns(yielded[Len(yielded)]) : Stepped(SagaStep(task.gen, v))
       \/ \E e \in CallErrors : Stepped(SagaThrow(task.gen, e))
    /\ UNCHANGED <<db, nonSagaVars>>

(***************************************************************************)
(* "On front-end ETL": default entities, selectors, BlogArticle            *)
(***************************************************************************)
\* { ...defaults, ...object }: object spread copies the own properties of
\* the object, a property whose value is undefined included; spreading
\* undefined or null copies nothing
Spread(defaults, object) ==
    LET own == IF IsObj(object) THEN object.f ELSE <<>>
    IN Obj([k \in DOMAIN defaults \cup DOMAIN own |->
               IF k \in DOMAIN own THEN own[k] ELSE defaults[k]])

\* a parameter with the default {}: an undefined argument becomes {}
OrEmpty(arg) == IF arg = Undefined THEN Obj(<<>>) ELSE arg

defaultSocialLinks(social) ==
    Spread([id |-> Str(""), website |-> Str(""), github |-> Str(""),
            twitter |-> Str("")],
           OrEmpty(social))

defaultAuthor(author) ==
    Spread([id |-> Str(""), username |-> Str(""), name |-> Str(""),
            social |-> defaultSocialLinks(Get(OrEmpty(author), "social"))],
           OrEmpty(author))

defaultBlog(blog) ==
    Spread([id |-> Str(""), body |-> Str(""),
            author |-> defaultAuthor(Get(OrEmpty(blog), "author"))],
           OrEmpty(blog))

fallbackBlog == defaultBlog(Obj([body |-> Str("Could not find blog article")]))

selectBlogs(st) == st.blogs
selectBlogById(st, arg) ==
    LET found == Lookup(selectBlogs(st), arg.id)
    IN IF Truthy(found) THEN found ELSE fallbackBlog

\* BlogArticle({ blogId }) rendered against a state: reading a member of
\* undefined throws a TypeError
BlogArticle(props, st) ==
    LET blog == selectBlogById(st, [id |-> props.blogId])
        author == Get(blog, "author")
        social == Get(author, "social")
    IN IF IsNullish(author) \/ IsNullish(social) THEN Threw(TypeError)
       ELSE Returned(Element("div", NoProps,
                << Element("div", NoProps, << Get(blog, "body") >>),
                   Str("written by: "), Get(author, "name"),
                   Str("website: "), Get(social, "website"),
                   Str("github: "), Get(social, "github"),
                   Str("twitter: "), Get(social, "twitter") >>))

\* what a deserializer gives: the entity, or an error thrown
Value(v) == [threw |-> FALSE, value |-> v]
OrString(v) == IF Truthy(v) THEN v ELSE Str("")

\* deserializeSocialLink of the nested version: for no social it calls
\* defaultSocial, a name that nothing defines (the default-entity function is
\* defaultSocialLinks), which throws a ReferenceError
deserializeSocialLink(social) ==
    IF ~Truthy(social) THEN Threw("ReferenceError")
    ELSE Value(Obj([id |-> Get(social, "id"),
                    website |-> OrString(Get(social, "website")),
                    github |-> OrString(Get(social, "github")),
                    twitter |-> OrString(Get(social, "twitter"))]))

deserializeAuthor(author) ==
    IF ~Truthy(author) THEN Value(defaultAuthor(Undefined))
    ELSE LET social == deserializeSocialLink(Get(author, "social"))
         IN IF social.threw THEN social
            ELSE Value(Obj([id |-> Get(author, "id"),
                            username |-> Get(author, "user_name"),
                            name |-> Get(author, "name"),
                            social |-> social.value]))

\* the normalized version: defaultSocialLink is defined nowhere either, and
\* author.social.id is read from the response
deserializeSocialLinkNormalized(social) ==
    IF ~Truthy(social) THEN Threw("ReferenceError")
    ELSE Value(Obj([id |-> Get(social, "id"),
                    website |-> OrString(Get(social, "website")),
                    github |-> OrString(Get(social, "github")),
                    twitter |-> OrString(Get(social, "twitter"))]))

deserializeAuthorNormalized(author) ==
    IF ~Truthy(author) THEN Value(defaultAuthor(Undefined))
    ELSE LET social == deserializeSocialLinkNormalized(Get(author, "social"))
         IN IF social.threw THEN social
            ELSE IF IsNullish(Get(author, "social")) THEN Threw("TypeError")
            ELSE Value(Obj([id |-> Get(author, "id"),
                            username |-> Get(author, "user_name"),
                            name |-> Get(author, "name"),
                            socialId |-> Get(Get(author, "social"), "id")]))

\* API responses: SocialLinksResponse | null and AuthorResponse | null
SocialLinksResponses ==
    { Null, Obj([id |-> Str("9")]),
      Obj([id |-> Str("9"), github |-> Str("neurosnap")]) }
AuthorResponses ==
    { Null } \cup
    { Obj([id |-> Str("7"), user_name |-> Str("erock"), name |-> Str("Eric Bower"),
           social |-> so]) : so \in SocialLinksResponses }
NotDeserialized == [version |-> "none"]

\* partials handed to the default-entity functions: each property absent,
\* present with the value undefined, or present with a value
PartialSocials ==
    { Undefined } \cup
    { ObjectOf([github |-> g]) : g \in {Absent, Str("neurosnap")} }
PartialAuthors ==
    { Undefined } \cup
    { ObjectOf([name |-> n, social |-> so]) :
        n \in {Absent, Str("Eric Bower")},
        so \in {Absent} \cup PartialSocials }
PartialBlogs ==
    { Undefined } \cup
    { ObjectOf([id |-> i, body |-> b, author |-> a]) :
        i \in {Absent, Undefined, Str("123")},
        b \in {Absent, Str("blog content!")},
        a \in {Absent} \cup PartialAuthors }

\* the blog articles a state can hold, each under its id, and the ids a
\* BlogArticle can be asked for
StoredIds == {"1", "2"}
Bodies == {"blog content!"}
BlogIds == StoredIds \cup {"3", "constructor"}
NotBuilt == [t |-> "none"]
NotRenderedArticle == [blogId |-> "", blogs |-> Obj(<<>>), out |-> NotRendered]

\* nothing built, a state that holds no blog articles yet, nothing rendered
BlogInit ==
    /\ partial = Undefined
    /\ built = NotBuilt
    /\ appState = [blogs |-> Obj(<<>>)]
    /\ article = NotRenderedArticle
    /\ deserialized = NotDeserialized

CallDefaultBlog ==
    /\ \E p \in PartialBlogs :
        /\ partial' = p
        /\ built' = defaultBlog(p)
    /\ UNCHANGED <<appState, article, deserialized, nonBlogVars>>

\* a blog entity is saved in the state under its id
SaveBlog ==
    /\ \E i \in StoredIds, b \in Bodies :
        LET blog == defaultBlog(Obj([id |-> Str(i), body |-> Str(b)]))
        IN appState' = [appState EXCEPT !.blogs =
                        Spread(appState.blogs.f, Obj([k \in {i} |-> blog]))]
    /\ UNCHANGED <<partial, built, article, deserialized, nonBlogVars>>

CallDeserializeAuthor ==
    /\ \E version \in {"nested", "normalized"}, author \in AuthorResponses :
        deserialized' =
            [version |-> version, response |-> author,
             out |-> IF version = "nested" THEN deserializeAuthor(author)
                     ELSE deserializeAuthorNormalized(author)]
    /\ UNCHANGED <<partial, built, appState, article, nonBlogVars>>

RenderBlogArticle ==
    /\ \E id \in BlogIds :
        article' = [blogId |-> id, blogs |-> appState.blogs,
                    out |-> BlogArticle([blogId |-> id], appState)]
    /\ UNCHANGED <<partial, built, appState, deserialized, nonBlogVars>>

(***************************************************************************)
(* Specifications                                                          *)
(***************************************************************************)
Init == RenderInit /\ ScriptInit /\ ContentInit /\ MovieInit /\ StoreInit /\ BlogInit /\ SliceInit /\ RegisterInit /\ SagaInit

Next == RenderOgImage \/ RenderFooter
ScriptNext == Invoke \/ StartCommand \/ FinishCommand

\* the render passes of a build
Spec == Init /\ [][Next]_vars

\* invocations of the package.json scripts
ScriptSpec == Init /\ [][ScriptNext]_vars

\* the generator fetchAndSaveMovie driven by its caller
MovieNext == CreateGenerator \/ CallNext \/ CallThrow
MovieSpec == Init /\ [][MovieNext]_vars

\* calls of the promise-based writeFile and the callbacks of fs
WriteFileNext == writeFile \/ FsCallsBack
WriteFileSpec == Init /\ [][WriteFileNext]_vars

\* the store of the createReducer example receiving actions
StoreNext == Dispatch
StoreSpec == Init /\ [][StoreNext]_vars

\* the saga middleware running onFetchPeople and onFetchArticles
SagaNext == TakeEvery \/ RunPut \/ RunCall
SagaSpec == Init /\ [][SagaNext]_vars

\* users signing up through the versions of register
RegisterNext == CallRegister
RegisterSpec == Init /\ [][RegisterNext]_vars

\* slices created and their reducers called
SliceNext == CallCreateSlice \/ CallSliceReducer
SliceSpec == Init /\ [][SliceNext]_vars

\* default entities made, blogs saved to the state, BlogArticle rendered
BlogNext == CallDefaultBlog \/ SaveBlog \/ RenderBlogArticle \/ CallDeserializeAuthor
BlogSpec == Init /\ [][BlogNext]_vars

\* the build reading the posts
ContentNext == SourcePost
ContentSpec == Init /\ [][ContentNext]_vars

(***************************************************************************)
(* Properties of the render passes                                         *)
(***************************************************************************)
PageContext == Get(input, "pageContext")
Description == Get(PageContext, "description")
Date == Get(PageContext, "date")
Social == Get(Get(Get(input, "site"), "siteMetadata"), "social")

NonEmpty(v) == IsStr(v) /\ v.s # ""
Anchors(tree) == ElementsOf(tree, "a")
\* a link that leaves the site: its href is a string that is not a site path
Outbound(a) ==
    /\ IsStr(a.props.href)
    /\ a.props.href.s # ""
    /\ SubSeq(a.props.href.s, 1, 1) # "/"
LabelledLinks(tree, label) ==
    SelectSeq(Anchors(tree), LAMBDA a : a.children = << Str(label) >>)

\* C1: whenever the og-image template was rendered with a pageContext whose
\* description and date are strings, the pass returned a tree (it did not
\* throw), the description and the date are text nodes of the tree exactly
\* as supplied, and the text of the tree contains "Eric Bower", the date and
\* the description.
C1_OgImageShowsAuthorDateDescription ==
    (comp = "og-image" /\ IsObj(PageContext) /\ IsStr(Description) /\ IsStr(Date)) =>
        /\ ~out.threw
        /\ InSeq(Description, TextNodes(out.tree))
        /\ InSeq(Date, TextNodes(out.tree))
        /\ Contains(TextOf(out.tree), "Eric Bower")
        /\ Contains(TextOf(out.tree), Date.s)
        /\ Contains(TextOf(out.tree), Description.s)

C1_Witness ==
    /\ comp = "og-image"
    /\ IsObj(PageContext)
    /\ Description = Str("<b>Tips</b> & tricks")
    /\ Date = Str("2021-01-26T00:00:00.000Z")
    /\ ~out.threw
    /\ Contains(TextOf(out.tree), "<b>Tips</b> & tricks")

\* C2 as stated: whenever the Footer was rendered on the page of a post, the
\* pass did not throw and the text of its output contains the author's name
\* and the post's date.
C2_FooterShowsAuthorAndDate ==
    (comp = "Footer" /\ post \in Posts /\ IsObj(Social)) =>
        /\ ~out.threw
        /\ Contains(TextOf(out.tree), "Eric Bower")
        /\ Contains(TextOf(out.tree), post.date)

\* C2 amended: whenever the Footer was rendered on the page of a post and the
\* site metadata has a social object, the pass did not throw and the text of
\* its output is the four link labels and the two separators, whatever the
\* post: it contains neither the author's name nor the post's date.
C2_FooterShowsOnlyLinks ==
    (comp = "Footer" /\ post \in Posts /\ IsObj(Social)) =>
        /\ ~out.threw
        /\ TextOf(out.tree) =
               "rss" \o "twitter" \o " " \o bull \o " " \o "github"
                     \o " " \o bull \o " " \o "stack overflow"
        /\ ~Contains(TextOf(out.tree), "Eric Bower")
        /\ ~Contains(TextOf(out.tree), post.date)

C2_Witness ==
    /\ comp = "Footer"
    /\ post.date = "2021-02-24T00:00:00.000Z"
    /\ IsObj(Social)
    /\ Get(Social, "github") = Null
    /\ ~out.threw

\* C3: whenever the Footer was rendered with a social object whose twitter,
\* github and stackoverflow values are non-empty strings, its output has
\* exactly three outbound links, labelled twitter, github and stack overflow
\* in that order, and the href of each contains its own handle.
C3_ThreeSocialLinks ==
    (/\ comp = "Footer"
     /\ IsObj(Social)
     /\ \A k \in {"twitter", "github", "stackoverflow"} : NonEmpty(Get(Social, k))) =>
        /\ ~out.threw
        /\ LET links == SelectSeq(Anchors(out.tree), Outbound) IN
            /\ Len(links) = 3
            /\ links[1].children = << Str("twitter") >>
            /\ links[2].children = << Str("github") >>
            /\ links[3].children = << Str("stack overflow") >>
            /\ Contains(links[1].props.href.s, Get(Social, "twitter").s)
            /\ Contains(links[2].props.href.s, Get(Social, "github").s)
            /\ Contains(links[3].props.href.s, Get(Social, "stackoverflow").s)

C3_Witness ==
    /\ comp = "Footer"
    /\ IsObj(Social)
    /\ \A k \in {"twitter", "github", "stackoverflow"} : NonEmpty(Get(Social, k))
    /\ ~out.threw
    /\ Len(Anchors(out.tree)) = 4
    /\ Len(SelectSeq(Anchors(out.tree), Outbound)) = 3

\* some prefix followed by the string of the handle
PrefixPlus(href, handle) ==
    /\ IsStr(href)
    /\ \E n \in 0..Len(href.s) :
           SubSeq(href.s, n + 1, Len(href.s)) = TemplateString(handle)

\* C4 as stated: whenever the Footer returned a tree, the href of each of the
\* twitter, github and stack overflow links is a string made of a prefix
\* followed by the configured handle, and for github the prefix is
\* "https://github.com/".
C4_EveryHrefIsPrefixPlusHandle ==
    (comp = "Footer" /\ ~out.threw) =>
        LET twitter == LabelledLinks(out.tree, "twitter")[1]
            github == LabelledLinks(out.tree, "github")[1]
            stackoverflow == LabelledLinks(out.tree, "stack overflow")[1]
        IN /\ PrefixPlus(twitter.props.href, Get(Social, "twitter"))
           /\ github.props.href =
                  Str("https://github.com/" \o TemplateString(Get(Social, "github")))
           /\ PrefixPlus(stackoverflow.props.href, Get(Social, "stackoverflow"))

\* C4 amended: whenever the Footer returned a tree, the href of the twitter
\* link is "https://mobile.twitter.com/" followed by the handle and the href
\* of the github link is "https://github.com/" followed by the handle, the
\* handle being written as a template literal writes it ("null" for null);
\* the href of the stack overflow link is the configured value itself, with
\* no prefix, and null when none is configured.
C4_HrefsOfTheThreeLinks ==
    (comp = "Footer" /\ ~out.threw) =>
        /\ Len(LabelledLinks(out.tree, "twitter")) = 1
        /\ Len(LabelledLinks(out.tree, "github")) = 1
        /\ Len(LabelledLinks(out.tree, "stack overflow")) = 1
        /\ LabelledLinks(out.tree, "twitter")[1].props.href =
               Str("https://mobile.twitter.com/" \o TemplateString(Get(Social, "twitter")))
        /\ LabelledLinks(out.tree, "github")[1].props.href =
               Str("https://github.com/" \o TemplateString(Get(Social, "github")))
        /\ LabelledLinks(out.tree, "stack overflow")[1].props.href =
               Get(Social, "stackoverflow")

C4_Witness ==
    /\ comp = "Footer"
    /\ ~out.threw
    /\ Get(Social, "github") = Str("erock")
    /\ LabelledLinks(out.tree, "github")[1].props.href = Str("https://github.com/erock")
    /\ Get(Social, "stackoverflow") = Null
    /\ LabelledLinks(out.tree, "stack overflow")[1].props.href = Null

\* C21: whenever the Footer was rendered with a social object, whatever its
\* handles (a missing one included), it returned a tree whose anchors are, in
\* document order, rss with href "/rss.xml", twitter, github and stack
\* overflow, each with target "_blank" and rel "noopener noreferrer".
C21_SameFourAnchorsInOrder ==
    (comp = "Footer" /\ IsObj(Social)) =>
        /\ ~out.threw
        /\ LET as == Anchors(out.tree) IN
            /\ [i \in 1..Len(as) |-> as[i].children] =
                   << <<Str("rss")>>, <<Str("twitter")>>, <<Str("github")>>,
                      <<Str("stack overflow")>> >>
            /\ as[1].props.href = Str("/rss.xml")
            /\ \A i \in 1..Len(as) :
                   /\ as[i].props.target = "_blank"
                   /\ as[i].props.rel = "noopener noreferrer"

\* the Footer rendered with no github handle and no stack overflow profile
C21_Witness ==
    /\ comp = "Footer"
    /\ IsObj(Social)
    /\ Get(Social, "twitter") = Str("erock")
    /\ Get(Social, "github") = Null
    /\ Get(Social, "stackoverflow") = Null
    /\ ~out.threw
    /\ Len(Anchors(out.tree)) = 4

C6_OgImageNeverThrows ==
    comp = "og-image" => (~out.threw /\ IsElement(out.tree))

\* C6 amended: whenever the og-image template was rendered with props that
\* carry a pageContext object, the pass returned a tree and did not throw,
\* also when the description or the date is absent or null; it threw exactly
\* when the props carry no pageContext or a null one.
C6_OgImageThrowsOnlyWithoutPageContext ==
    comp = "og-image" =>
        /\ out.threw <=> ~IsObj(PageContext)
        /\ ~out.threw => IsElement(out.tree)

C6_Witness ==
    /\ comp = "og-image"
    /\ IsObj(PageContext)
    /\ Description = Undefined
    /\ Date = Null
    /\ ~out.threw
    /\ IsElement(out.tree)

\* C7: whenever the og-image template returned a tree, the outermost box has
\* width 1200 and height 630, whatever the description and the date.
C7_FixedSizeBox ==
    (comp = "og-image" /\ ~out.threw) =>
        /\ out.tree.props.style.width = 1200
        /\ out.tree.props.style.height = 630

\* two passes whose descriptions differ in length, both 1200 by 630
C7_Witness ==
    /\ comp = "og-image" /\ prev.comp = "og-image"
    /\ ~out.threw /\ ~prev.out.threw
    /\ IsStr(Description) /\ IsStr(Get(Get(prev.input, "pageContext"), "description"))
    /\ Len(Description.s) > Len(Get(Get(prev.input, "pageContext"), "description").s)
    /\ out.tree.props.style = prev.out.tree.props.style
    /\ out.tree.props.style.width = 1200

\* C11: a render pass leaves what it was given as it was: after a pass of the
\* og-image template the pageContext of the props is the one handed in, and
\* after a pass of the Footer the social object of the site metadata is the
\* one handed in, whether the pass returned a tree or threw.
C11_RenderingMutatesNothing ==
    /\ comp = "og-image" =>
           Get(after, "pageContext") = Get(input, "pageContext")
    /\ comp = "Footer" =>
           Get(Get(Get(after, "site"), "siteMetadata"), "social") = Social

\* a tree was returned for a pageContext without description, and the
\* pageContext still has none
C11_Witness ==
    /\ comp = "og-image"
    /\ ~out.threw
    /\ IsObj(PageContext)
    /\ "description" \notin DOMAIN PageContext.f
    /\ "description" \notin DOMAIN Get(after, "pageContext").f
    /\ after = input

(***************************************************************************)
(* Properties of the content                                               *)
(***************************************************************************)
\* C12: every post the build has read has a front matter block at its start,
\* with a title that is a non-empty string, a date that is a string holding
\* an ISO-8601 timestamp, and a description that is a non-empty string.
C12_EveryPostHasFrontMatter ==
    \A path \in read :
        /\ frontmatter[path] # NoFrontMatter
        /\ NonEmpty(Get(frontmatter[path], "title"))
        /\ IsStr(Get(frontmatter[path], "date"))
        /\ IsIsoTimestamp(Get(frontmatter[path], "date").s)
        /\ NonEmpty(Get(frontmatter[path], "description"))

\* every post was read, among them one whose description is on the line
\* below its key
C12_Witness ==
    /\ read = PostPaths
    /\ Get(frontmatter["content/blog/docker-disk-out-of-space/index.md"], "description")
           = Str("How to solve your production container running out of space with docker")
    /\ Get(frontmatter["unnamed/part_000"], "date") = Str("2019-04-12T10:00:00.000Z")

(***************************************************************************)
(* Properties of fetchAndSaveMovie                                         *)
(***************************************************************************)
NextAt(i) == Len(fed) >= i /\ fed[i].mode = "next"
ThrowAt(i) == Len(fed) >= i /\ fed[i].mode = "throw"
HasStatus200(v) == IsObj(v) /\ Get(v, "status") = Num(200)
FetchEffect(id) == Call(Fn("fetch"), << Str("http://localhost/movies/" \o id.s) >>)

\* C13: when the generator was started and the value then handed to next()
\* is an object whose status is not 200, that call throws an Error with the
\* message 'request unsuccessful', the generator is finished, and the fetch
\* call is the only effect it ever yields.
C13_Not200Throws ==
    (NextAt(1) /\ NextAt(2) /\ IsObj(fed[2].value) /\ ~HasStatus200(fed[2].value)) =>
        /\ gen.pc = "closed"
        /\ effects = << FetchEffect(gen.id) >>
        /\ Len(fed) = 2 => ret = GenThrew(Error("request unsuccessful"))

C13_Witness ==
    /\ NextAt(1) /\ NextAt(2)
    /\ fed[2].value = Obj([status |-> Num(500)])
    /\ Len(fed) = 3
    /\ ret = IterResult(TRUE, Undefined)
    /\ Len(effects) = 1

\* C14: when the generator is driven by next() alone, the second call with a
\* response of status 200 and the third with a movie, it yields the call of
\* fetch on 'http://localhost/movies/<id>', then the call of json on that
\* response, then the call of writeFile with 'movie.json' and the JSON text
\* of that movie, and nothing more; the fourth call gives done true and
\* 'saved movie.json'.
C14_ThreeEffectsInOrder ==
    (NextAt(1) /\ NextAt(2) /\ HasStatus200(fed[2].value) /\ NextAt(3) /\ NextAt(4)) =>
        /\ effects = << FetchEffect(gen.id),
                        Call(Method(fed[2].value, "json"), <<>>),
                        Call(Fn("writeFile"),
                             << Str("movie.json"), JsonStringify(fed[3].value) >>) >>
        /\ fed[3].value = Movie =>
               effects[3].args[2] = Str("{\n  \"name\": \"Lord of the Rings\"\n}")
        /\ Len(fed) = 4 => ret = IterResult(TRUE, Str("saved movie.json"))
        /\ gen.pc = "closed"

C14_Witness ==
    /\ Len(fed) = 4
    /\ gen.id = Str("3")
    /\ \A i \in 1..4 : fed[i].mode = "next"
    /\ fed[2].value = Obj([status |-> Num(200)])
    /\ fed[3].value = Movie
    /\ Len(effects) = 3
    /\ effects[1].args = << Str("http://localhost/movies/3") >>
    /\ ret = IterResult(TRUE, Str("saved movie.json"))

\* C15: when the generator stands at the writeFile yield and an error is
\* thrown into it, the call does not throw: it gives done true with the
\* thrown value as value, and the generator is finished.
C15_WriteFileErrorIsReturned ==
    (NextAt(1) /\ NextAt(2) /\ HasStatus200(fed[2].value) /\ NextAt(3) /\ ThrowAt(4)) =>
        /\ Len(fed) = 4 => ret = IterResult(TRUE, fed[4].value)
        /\ gen.msg = fed[4].value
        /\ gen.pc = "closed"
        /\ Len(effects) = 3

C15_Witness ==
    /\ Len(fed) = 4
    /\ NextAt(3) /\ ThrowAt(4)
    /\ fed[4].value = Str("some error")
    /\ ret = IterResult(TRUE, Str("some error"))

\* C16: a promise returned by writeFile is settled exactly once, by the
\* callback of fs: before the callback it is pending; after a callback with
\* an error it is rejected with that error, and it is not fulfilled with
\* 'saved <fname>' although resolve was called; after a callback with no
\* error it is fulfilled with 'saved <fname>'.
C16_WriteFileSettlesOnce ==
    \A i \in 1..Len(promises) :
        LET p == promises[i] IN
        /\ p.err = NotCalled => (p.state = "pending" /\ p.settles = 0)
        /\ p.err # NotCalled => p.settles = 1
        /\ (p.err # NotCalled /\ Truthy(p.err)) =>
               (p.state = "rejected" /\ p.value = p.err)
        /\ (p.err # NotCalled /\ ~Truthy(p.err)) =>
               (p.state = "fulfilled" /\ p.value = Str("saved " \o p.fname.s))

\* the callback got 'some error': reject and then resolve were called, and
\* the promise is rejected with 'some error'
C16_Witness ==
    /\ Len(promises) = 2
    /\ promises[1].fname = Str("movie.json")
    /\ promises[1].err = Str("some error")
    /\ promises[1].calls = << "reject", "resolve" >>
    /\ promises[1].state = "rejected"
    /\ promises[1].value = Str("some error")
    /\ promises[2].state = "fulfilled"
    /\ promises[2].value = Str("saved movie.json")

(***************************************************************************)
(* Properties of the createReducer example                                 *)
(***************************************************************************)
\* C17: once the store has received addTodo for the todos '1', '2' and '3'
\* in that order its state is the list of the three in that order, and once
\* it has then received toggleTodo('2') todo '2' is completed and todos '1'
\* and '3' are as they were.
C17_ExampleStoreHoldsTheTodos ==
    /\ dispatched = << addTodo(Todo1), addTodo(Todo2), addTodo(Todo3) >> =>
           store = Arr(<< Todo1, Todo2, Todo3 >>)
    /\ dispatched = << addTodo(Todo1), addTodo(Todo2), addTodo(Todo3),
                       toggleTodo(Str("2")) >> =>
           store = Arr(<< Todo1, Todo("2", "byo createReducer", TRUE), Todo3 >>)

(***************************************************************************)
(* Properties of the sagas                                                 *)
(***************************************************************************)
PeopleTask == task.gen.saga = "onFetchPeople"
ArticlesTask == task.gen.saga = "onFetchArticles"
PutsOf(type) ==
    { i \in 1..Len(yielded) :
        /\ yielded[i].type = "PUT"
        /\ \/ yielded[i].action.type = type
           \/ /\ yielded[i].action.type = "BATCHING_REDUCER.BATCH"
              /\ \E k \in 1..Len(yielded[i].action.payload) :
                     yielded[i].action.payload[k].type = type }
CallsOf == { i \in 1..Len(yielded) : yielded[i].type = "CALL" }

\* C27: whenever onFetchPeople has ended, every setLoaderStart it put is
\* followed by exactly one put of setLoaderError or setLoaderSuccess,
\* whatever the apiFetch call gave (an error thrown included); and run with
\* a falsy orgId it has put nothing and called nothing.
C27_EveryLoaderStartIsClosed ==
    (PeopleTask /\ task.done) =>
        /\ \A i \in PutsOf("setLoaderStart") :
               Cardinality({ j \in PutsOf("setLoaderError") \cup PutsOf("setLoaderSuccess") :
                               j > i }) = 1
        /\ ~Truthy(task.gen.action.payload) => yielded = <<>>

\* C28: once onFetchPeople has the response of apiFetch, with a response
\* that is no success it yields the put of setLoaderError(resp) and never a
\* put of addPeople, and with a success it yields one put of a batch of
\* addPeople(people of the response, by id) and setLoaderSuccess, after the
\* put of setLoaderStart and after the call of apiFetch.
C28_PeopleStoredOnlyOnSuccess ==
    (PeopleTask /\ task.gen.v # Undefined) =>
        /\ Len(yielded) = 3
        /\ yielded[1] = Put(setLoaderStart)
        /\ yielded[2] = Call(Fn("apiFetch"), << Str("/orgs/org1/people") >>)
        /\ IF ~apiSuccess(task.gen.v)
           THEN /\ yielded[3] = Put(setLoaderError(task.gen.v))
                /\ PutsOf("people/add") = {}
           ELSE /\ yielded[3].type = "PUT"
                /\ yielded[3].action.type = "BATCHING_REDUCER.BATCH"
                /\ Len(yielded[3].action.payload) = 2
                /\ yielded[3].action.payload[1].type = "people/add"
                /\ DOMAIN yielded[3].action.payload[1].payload =
                       { Get(p, "id").s : p \in
                           { Get(Get(task.gen.v, "data"), "people").items[i] :
                               i \in 1..Len(Get(Get(task.gen.v, "data"), "people").items) } }
                /\ yielded[3].action.payload[2] = setLoaderSuccess
                /\ PutsOf("setLoaderError") = {}

\* onFetchPeople ended after a successful response with two people
C28_Witness ==
    /\ PeopleTask
    /\ task.gen.pc = "done"
    /\ apiSuccess(task.gen.v)
    /\ PutsOf("people/add") = {3}
    /\ DOMAIN db.people = {"1", "2"}
    /\ db.loader = "success"

\* C29: in every state the ids of the order index are the keys of the
\* article table; every put of onFetchArticles is one batch of setArticles
\* and setArticleOrder; and once it has ended without an error articleOrder
\* lists the ids in the order of the API's list.
C29_TableAndIndexChangeTogether ==
    /\ { db.articleOrder[i].s : i \in 1..Len(db.articleOrder) } = DOMAIN db.articles
    /\ ArticlesTask =>
           \A i \in 1..Len(yielded) :
               yielded[i].type = "PUT" =>
                   /\ yielded[i].action.type = "BATCHING_REDUCER.BATCH"
                   /\ Len(yielded[i].action.payload) = 2
                   /\ yielded[i].action.payload[1].type = "articles/set"
                   /\ yielded[i].action.payload[2].type = "articleOrder/set"
    /\ (ArticlesTask /\ task.gen.pc = "done") =>
           /\ db.articleOrder =
                  [i \in 1..Len(task.gen.v.items) |-> Get(task.gen.v.items[i], "id")]
           /\ \A i \in 1..Len(db.articleOrder) :
                  db.articleOrder[i].s \in DOMAIN db.articles

\* onFetchArticles ended after the API listed article 2 before article 1
C29_Witness ==
    /\ ArticlesTask
    /\ task.gen.pc = "done"
    /\ db.articleOrder = << Str("2"), Str("1") >>
    /\ DOMAIN db.articles = {"1", "2"}

(***************************************************************************)
(* Properties of the versions of register                                  *)
(***************************************************************************)
AllChecksPass ==
    /\ isEmailValid(registered.email)
    /\ isEmailAvailable(registered.email, registered.before)
    /\ isPassValid(registered.pass)

\* the response that reports the first failing check in the order email
\* valid, email available, password valid
FirstFailingCheck ==
    IF ~isEmailValid(registered.email)
    THEN [type |-> "error", payload |-> Str("email is invalid")]
    ELSE IF ~isEmailAvailable(registered.email, registered.before)
    THEN [type |-> "error", payload |-> Str("email is already taken")]
    ELSE IF ~isPassValid(registered.pass)
    THEN [type |-> "error", payload |-> Str("password must be 8 characters long")]
    ELSE [type |-> "success",
          payload |-> Obj([userId |-> Num(Cardinality(registered.before) + 1)])]

\* C25: whichever version of register was called, it called createUser
\* exactly when the three checks passed and returned type 'success' exactly
\* then; the 'Dynamic returns' version returned what the final 'Return often'
\* version returns for the same arguments, which is the response for the
\* first failing check.
C25_VersionsAgreeOnTheOutcome ==
    registered # NotRegistered =>
        /\ registered.created <=> AllChecksPass
        /\ registered.response.type = "success" <=> AllChecksPass
        /\ registered.version \in {"final", "dynamic"} =>
               /\ registered.response = FirstFailingCheck
               /\ registered.response =
                      registerFinal(registered.email, registered.pass,
                                    registered.before).response

\* the 'Dynamic returns' version called with an invalid email and a short
\* password reported the email
C25_Witness ==
    /\ registered # NotRegistered
    /\ registered.version = "dynamic"
    /\ registered.email = "eric"
    /\ registered.pass = "1234"
    /\ ~registered.created
    /\ registered.response = [type |-> "error", payload |-> Str("email is invalid")]

(***************************************************************************)
(* Properties of createReducer and createSlice                             *)
(***************************************************************************)
\* C22: whenever a reducer made by createReducer was called, it returned the
\* state it was given when the action's type is not a key of the reducers
\* object, and otherwise what the case reducer under that key returns for
\* the state and the action's payload.
C22_ReducerDispatchesByKey ==
    applied # NotApplied =>
        IF applied.action.type \notin DOMAIN applied.reducers.f
        THEN applied.out = NextState(applied.before)
        ELSE applied.out = CaseReducer(applied.reducers.f[applied.action.type],
                                       applied.before, applied.action.payload)

\* C23: every action creator actions[k] of a slice named n is made for the
\* type n/k (k when n is empty); whenever a slice's reducer was called with
\* an action of its own creator actions[k] it returned what reducers[k]
\* returns for the state and the payload, and whenever it was called with an
\* action of a creator of a slice of another name it returned the state it
\* was given.
C23_SliceActionsReachTheirOwnSlice ==
    /\ \A i \in 1..Len(slices) : \A k \in DOMAIN slices[i].reducers.f :
           slices[i].actions[k] =
               IF slices[i].name = "" THEN k ELSE slices[i].name \o "/" \o k
    /\ applied # NotApplied =>
           \A j \in 1..Len(slices) : \A k \in DOMAIN slices[j].actions :
               applied.action.type = slices[j].actions[k] =>
                   IF j = applied.slice
                   THEN applied.out =
                            CaseReducer(slices[j].reducers.f[k], applied.before,
                                        applied.action.payload)
                   ELSE slices[j].name # slices[applied.slice].name =>
                            applied.out = NextState(applied.before)

\* C24: the extraReducers object of the caller keeps the keys it had before
\* the calls of createSlice, and the reducers object of a slice made with it
\* holds no type of another slice.
C24_ExtraReducersKeepsItsKeys ==
    /\ DOMAIN extra.f = DOMAIN ExtraReducers.f
    /\ \A i, j \in 1..Len(slices) :
           (i # j /\ slices[i].shared /\ slices[j].shared
                  /\ slices[i].name # slices[j].name) =>
               \A k \in DOMAIN slices[j].actions :
                   slices[j].actions[k] \notin DOMAIN ReducerMapOf(slices[i]).f

(***************************************************************************)
(* Properties of the default entities and of the selectors                 *)
(***************************************************************************)
Defined(object, keys) ==
    /\ IsObj(object)
    /\ \A k \in keys : k \in DOMAIN object.f /\ object.f[k] # Undefined

\* C18: whatever partial defaultBlog is given, its result has a defined id
\* and body, a defined author with a defined id, username and name, and a
\* defined author.social with a defined id, website, github and twitter.
C18_DefaultBlogIsComplete ==
    built # NotBuilt =>
        /\ Defined(built, {"id", "body", "author"})
        /\ Defined(Get(built, "author"), {"id", "username", "name", "social"})
        /\ Defined(Get(Get(built, "author"), "social"),
                   {"id", "website", "github", "twitter"})

\* C26: whenever deserializeAuthor, of the nested or of the normalized
\* version, was called with a null author or with an author whose social is
\* null, it did not throw and returned an Author with every field of that
\* version defined.
C26_DeserializeAuthorIsComplete ==
    (/\ deserialized # NotDeserialized
     /\ \/ deserialized.response = Null
        \/ Get(deserialized.response, "social") = Null) =>
        /\ ~deserialized.out.threw
        /\ IF deserialized.version = "nested"
           THEN /\ Defined(deserialized.out.value, {"id", "username", "name", "social"})
                /\ Defined(Get(deserialized.out.value, "social"),
                           {"id", "website", "github", "twitter"})
           ELSE Defined(deserialized.out.value, {"id", "username", "name", "socialId"})

\* C19: for every id and every state, selectBlogById gives the blog stored
\* under the id when there is one and the fallback blog otherwise, never an
\* absent value, and BlogArticle renders without throwing.
C19_SelectedBlogIsNeverAbsent ==
    article # NotRenderedArticle =>
        LET blog == selectBlogById([blogs |-> article.blogs],
                                   [id |-> article.blogId])
        IN /\ ~IsNullish(blog)
           /\ blog = IF article.blogId \in DOMAIN article.blogs.f
                     THEN article.blogs.f[article.blogId]
                     ELSE fallbackBlog
           /\ ~article.out.threw

(***************************************************************************)
(* Properties of the scripts                                               *)
(***************************************************************************)
Commands == [i \in 1..Len(ran) |-> ran[i].cmd]
Succeeded(i) == ran[i].done /\ ran[i].status = 0
Failed(i) == ran[i].done /\ ran[i].status # 0
BuildTools == << RmPublic, RmCache, GatsbyBuild >>

\* the tools a script runs when none fails, in order
RECURSIVE ToolsOf(_)
ToolsOfChain(chain) ==
    LET F[i \in 0..Len(chain)] ==
            IF i = 0 THEN <<>>
            ELSE F[i - 1] \o (IF chain[i].yarn THEN ToolsOf(chain[i].cmd)
                              ELSE << chain[i].cmd >>)
    IN F[Len(chain)]
ToolsOf(name) == ToolsOfChain(Scripts[name])

\* C8: in an invocation of deploy the sync to the bucket is started only when
\* the three commands of build have been run before it, in order, and each
\* has finished with status 0; it is not started when one of them failed;
\* and when deploy ends with status 0 the build and then the sync were run.
C8_UploadOnlyAfterBuildSucceeded ==
    script = "deploy" =>
        /\ \A i \in 1..Len(ran) :
               ran[i].cmd = Gsutil =>
                   /\ i = Len(BuildTools) + 1
                   /\ SubSeq(Commands, 1, i - 1) = BuildTools
                   /\ \A j \in 1..(i - 1) : Succeeded(j)
        /\ (\E j \in 1..Len(ran) : ran[j].cmd # Gsutil /\ Failed(j)) =>
               \A i \in 1..Len(ran) : ran[i].cmd # Gsutil
        /\ exit = Exited(0) => Commands = BuildTools \o << Gsutil >>

\* the sync is running after the three commands of the build succeeded
C8_Witness ==
    /\ script = "deploy"
    /\ Len(ran) = 4
    /\ ran[3].cmd = GatsbyBuild /\ Succeeded(3)
    /\ ran[4].cmd = Gsutil /\ ~ran[4].done

\* C9: when an invocation of build, dev or deploy has ended, its exit status
\* is 0 if and only if every tool of its chain was run and ended with 0, and
\* otherwise it is the status of the first tool that failed.
C9_ExitStatusIsTheToolsStatus ==
    (script \in {"build", "dev", "deploy"} /\ ~exit.none) =>
        /\ exit.status = 0 <=>
               (Commands = ToolsOf(script) /\ \A i \in 1..Len(ran) : Succeeded(i))
        /\ exit.status # 0 =>
               \E i \in 1..Len(ran) :
                   /\ Failed(i)
                   /\ \A j \in 1..(i - 1) : Succeeded(j)
                   /\ exit.status = ran[i].status

\* deploy ended with the status 2 of gatsby build
C9_Witness ==
    /\ script = "deploy"
    /\ exit = Exited(2)
    /\ Len(ran) = 3
    /\ ran[3].cmd = GatsbyBuild /\ ran[3].status = 2

\* C10: in an invocation of build or deploy no tool is run twice, and every
\* tool run before the last one ended with status 0: once a tool has failed
\* the invocation has ended and nothing more is run.
C10_NoRetryNoRecovery ==
    script \in {"build", "deploy"} =>
        /\ \A i, j \in 1..Len(ran) : ran[i].cmd = ran[j].cmd => i = j
        /\ \A i \in 1..(Len(ran) - 1) : Succeeded(i)
        /\ (\E i \in 1..Len(ran) : Failed(i)) => (stack = <<>> /\ ~exit.none)

\* build ended when the removal of .cache failed: gatsby build was not run
C10_Witness ==
    /\ script = "build"
    /\ Len(ran) = 2
    /\ ran[2].cmd = RmCache /\ Failed(2)
    /\ stack = <<>>
    /\ exit = Exited(ran[2].status)

\* C20: gatsby build is only ever invoked as the third command, after
\* rm -rf public and then rm -rf .cache have both ended with status 0, and
\* while it runs neither ./public nor ./.cache holds what an earlier build
\* left.
C20_BuildStartsFromCleanDirectories ==
    \A i \in 1..Len(ran) :
        ran[i].cmd = GatsbyBuild =>
            /\ i = 3
            /\ ran[1].cmd = RmPublic /\ Succeeded(1)
            /\ ran[2].cmd = RmCache /\ Succeeded(2)
            /\ ~ran[i].done => files = [public |-> "absent", cache |-> "absent"]

\* yarn build found the directories of an earlier build, removed ./public,
\* failed to remove ./.cache, and ended without invoking gatsby build
C20_Witness ==
    /\ script = "build"
    /\ Commands = << RmPublic, RmCache >>
    /\ Succeeded(1) /\ Failed(2)
    /\ files = [public |-> "absent", cache |-> "old"]
    /\ exit # NoExit

====
